---- MODULE Spec2Model ----
(***************************************************************************)
(* The resilience layer of the receipt-management backend:                 *)
(*   - CircuitBreaker   (src/shared/utils/circuit_breaker.py)              *)
(*   - RateLimiter      (src/ai_service/utils/rate_limiter.py)             *)
(* Both keep their state in the Django cache.  The breaker's five cache    *)
(* entries are the fields of the record cb; the rate limiter's bucket      *)
(* counters are the entries of the function counters.                      *)
(*                                                                         *)
(* SpecBreaker drives one breaker with a single sequential caller over a   *)
(* reliable store; SpecLimiter drives the rate limiter the same way.       *)
(* The metrics field average_response_time (a float running mean) and the  *)
(* constant created_at are not part of the modelled metrics aggregate.     *)
(***************************************************************************)
EXTENDS Integers, Sequences, FiniteSets, TLC

VARIABLES
    config,     \* CircuitBreakerConfig of the breaker (fixed at construction)
    cb,         \* the breaker's cache entries: state, counters, metrics
    now,        \* the wall clock, time.time(), in seconds
    calls,      \* number of operations performed so far (bounds the run)
    last,       \* history: the last breaker operation, its input and outcome
    streak,     \* history: consecutive expected failures since CLOSED with failure_count 0
    limits,     \* RateLimiter.limits: service -> its configured limits
    counters,   \* the rate limiter's cache entries: key -> [count, expires]
    rl,         \* history: the last rate limiter operation and its decision
    raised,     \* history: the phases of the last check in which a store access raised
    proc,       \* thread -> the process it runs in (0: the thread does not exist)
    faults,     \* whether store accesses of the breaker may raise
    th,         \* thread -> its position in call() and its local variables
    lock,       \* process -> the thread holding the breaker's RLock (0: free)
    tally,      \* history: outcomes of the operations run through call()
    lth,        \* limiter thread -> its position in check_rate_limit and its locals
    query,      \* history: the last read-only query and what it returned
    breakers,   \* process -> CircuitBreakerManager._breakers of that process
    stored,     \* config.name -> the cache entries under circuit_breaker:{name}:*
    manager_lock, \* process -> the thread holding CircuitBreakerManager._lock (0: free)
    mth,        \* thread -> its position in get_breaker and its locals
    delete_pattern, \* whether the cache backend has delete_pattern
    categories, \* AICategorizationService._available_categories
    prediction  \* history: how the last predict_category ended

vars == <<config, cb, now, calls, last, streak, limits, counters, rl,
          raised, proc, faults, th, lock, tally,
          lth, query, breakers, stored, manager_lock, mth, delete_pattern,
          categories, prediction>>
threadvars == <<proc, faults, th, lock, tally>>
\* the variables of the specifications other than SpecBreaker, SpecLimiter,
\* SpecLimiterStoreErrors, SpecThreads and SpecBreakerStoreErrors
servicevars == <<lth, query, breakers, stored, manager_lock, mth, delete_pattern,
                 categories, prediction>>

(***************************************************************************)
(* Bounds of the model                                                     *)
(***************************************************************************)
MaxFailureThreshold == 2
MaxSuccessThreshold == 2
MaxRecoveryTimeout == 2
MaxTime == 3
MaxOpDuration == 1
MaxCalls == 4
MaxRpm == 2
MaxRpd == 2
MaxBurst == 2
MaxChecks == 4
MaxStoreErrorChecks == 2

(***************************************************************************)
(* CircuitBreakerState and the metrics aggregate                           *)
(***************************************************************************)
CLOSED == "closed"
OPEN == "open"
HALF_OPEN == "half_open"
CircuitBreakerState == {CLOSED, OPEN, HALF_OPEN}

\* last_opened_at / last_closed_at before the first transition (None)
NoneTime == -1

CircuitBreakerConfig ==
    [failure_threshold : 1..MaxFailureThreshold,
     recovery_timeout  : 0..MaxRecoveryTimeout,
     success_threshold : 1..MaxSuccessThreshold]

initialize_metrics ==
    [total_requests       |-> 0,
     total_failures       |-> 0,
     total_successes      |-> 0,
     total_timeouts       |-> 0,
     total_circuit_opens  |-> 0,
     total_circuit_closes |-> 0,
     last_opened_at       |-> NoneTime,
     last_closed_at       |-> NoneTime]

initialize_state ==
    [state             |-> CLOSED,
     failure_count     |-> 0,
     success_count     |-> 0,
     last_failure_time |-> 0,
     metrics           |-> initialize_metrics]

(***************************************************************************)
(* What the wrapped operation does when invoked: it returns, or raises an  *)
(* exception that is or is not an instance of config.expected_exceptions.  *)
(* timeout: the exception's text contains "timeout" (read only for an      *)
(* expected exception, by _update_failure_metrics).                        *)
(***************************************************************************)
Behaviours ==
    { [ok |-> TRUE,  expected |-> FALSE, timeout |-> FALSE],
      [ok |-> FALSE, expected |-> TRUE,  timeout |-> FALSE],
      [ok |-> FALSE, expected |-> TRUE,  timeout |-> TRUE],
      [ok |-> FALSE, expected |-> FALSE, timeout |-> FALSE] }

(***************************************************************************)
(* State setter and its metrics                                            *)
(***************************************************************************)
update_state_change_metrics(s, old_state, new_state, t) ==
    IF new_state = OPEN
    THEN [s EXCEPT !.metrics.total_circuit_opens = @ + 1,
                   !.metrics.last_opened_at = t]
    ELSE IF new_state = CLOSED /\ old_state # CLOSED
    THEN [s EXCEPT !.metrics.total_circuit_closes = @ + 1,
                   !.metrics.last_closed_at = t]
    ELSE s

state_setter(s, new_state, t) ==
    LET old_state == s.state
        s1 == [s EXCEPT !.state = new_state]
    IN  IF old_state # new_state
        THEN update_state_change_metrics(s1, old_state, new_state, t)
        ELSE s1

\* faulty variant: recovery_timeout must be strictly exceeded
can_attempt_reset_strict(s, t) ==
    IF s.state # OPEN
    THEN FALSE
    ELSE (t - s.last_failure_time) > config.recovery_timeout

can_attempt_reset(s, t) ==
    IF s.state # OPEN
    THEN FALSE
    ELSE (t - s.last_failure_time) >= config.recovery_timeout

(***************************************************************************)
(* Bookkeeping                                                             *)
(***************************************************************************)
update_success_metrics(s) ==
    [s EXCEPT !.metrics.total_requests = @ + 1,
              !.metrics.total_successes = @ + 1]

\* faulty variant: a failure is not counted as a request
update_failure_metrics_no_request(s, exc) ==
    [s EXCEPT !.metrics.total_failures = @ + 1,
              !.metrics.total_timeouts = IF exc.timeout THEN @ + 1 ELSE @]

update_failure_metrics(s, exc) ==
    [s EXCEPT !.metrics.total_requests = @ + 1,
              !.metrics.total_failures = @ + 1,
              !.metrics.total_timeouts = IF exc.timeout THEN @ + 1 ELSE @]

\* faulty variant: opens one failure late
failure_threshold_exceeded(failure_count) ==
    failure_count > config.failure_threshold

failure_threshold_reached(failure_count) ==
    failure_count >= config.failure_threshold

\* faulty variant: closes one success late
success_threshold_exceeded(success_count) ==
    success_count > config.success_threshold

success_threshold_reached(success_count) ==
    success_count >= config.success_threshold

\* faulty variant: successes in HALF_OPEN are counted, the breaker is not closed
record_success_never_closes(s, t) ==
    IF s.state = HALF_OPEN
    THEN update_success_metrics([s EXCEPT !.success_count = s.success_count + 1])
    ELSE update_success_metrics(s)

\* faulty variant: a success while CLOSED clears failure_count
record_success_decays(s, t) ==
    IF s.state = HALF_OPEN
    THEN LET success_count == s.success_count + 1
             s1 == [s EXCEPT !.success_count = success_count]
         IN  update_success_metrics(
                 IF success_threshold_reached(success_count)
                 THEN [state_setter(s1, CLOSED, t) EXCEPT !.failure_count = 0,
                                                         !.success_count = 0]
                 ELSE s1)
    ELSE update_success_metrics([s EXCEPT !.failure_count = 0])

record_success(s, t) ==
    LET current_state == s.state
        success_count == s.success_count + 1
        s1 == [s EXCEPT !.success_count = success_count]
        s2 == IF success_threshold_reached(success_count)
              THEN [state_setter(s1, CLOSED, t) EXCEPT !.failure_count = 0,
                                                      !.success_count = 0]
              ELSE s1
    IN  IF current_state = HALF_OPEN
        THEN update_success_metrics(s2)
        ELSE update_success_metrics(s)

\* faulty variant: the HALF_OPEN branch is missing
record_failure_closed_only(s, exc, t) ==
    LET current_state == s.state
        failure_count == s.failure_count + 1
        s1 == [s EXCEPT !.failure_count = failure_count,
                        !.last_failure_time = t]
        s2 == IF current_state = CLOSED /\ failure_threshold_reached(failure_count)
              THEN [state_setter(s1, OPEN, t) EXCEPT !.success_count = 0]
              ELSE s1
    IN  IF ~exc.expected
        THEN s
        ELSE update_failure_metrics(s2, exc)

\* faulty variant: every exception counts as a failure
record_failure_any_kind(s, exc, t) ==
    LET current_state == s.state
        failure_count == s.failure_count + 1
        s1 == [s EXCEPT !.failure_count = failure_count,
                        !.last_failure_time = t]
        s2 == IF current_state = CLOSED
              THEN IF failure_threshold_reached(failure_count)
                   THEN [state_setter(s1, OPEN, t) EXCEPT !.success_count = 0]
                   ELSE s1
              ELSE IF current_state = HALF_OPEN
              THEN [state_setter(s1, OPEN, t) EXCEPT !.success_count = 0]
              ELSE s1
    IN  update_failure_metrics(s2, exc)

record_failure(s, exc, t) ==
    LET current_state == s.state
        failure_count == s.failure_count + 1
        s1 == [s EXCEPT !.failure_count = failure_count,
                        !.last_failure_time = t]
        s2 == IF current_state = CLOSED
              THEN IF failure_threshold_reached(failure_count)
                   THEN [state_setter(s1, OPEN, t) EXCEPT !.success_count = 0]
                   ELSE s1
              ELSE IF current_state = HALF_OPEN
              THEN [state_setter(s1, OPEN, t) EXCEPT !.success_count = 0]
              ELSE s1
    IN  IF ~exc.expected
        THEN s
        ELSE update_failure_metrics(s2, exc)

\* faulty variant: an OPEN breaker never probes
call_never_probes(s, beh, t, d) ==
    IF s.state = OPEN
    THEN [store |-> s, at_invoke |-> s, invoked |-> 0,
          outcome |-> "raised_cbe", t_end |-> t]
    ELSE IF beh.ok
    THEN [store |-> record_success(s, t + d), at_invoke |-> s,
          invoked |-> 1, outcome |-> "returned", t_end |-> t + d]
    ELSE [store |-> record_failure(s, beh, t + d), at_invoke |-> s,
          invoked |-> 1, outcome |-> "raised_op", t_end |-> t + d]

\* faulty variant: a rejected call is counted in total_requests
call_counts_rejections(s, beh, t, d) ==
    LET attempt == can_attempt_reset(s, t)
        s_inv == IF s.state = OPEN THEN state_setter(s, HALF_OPEN, t) ELSE s
    IN  IF s.state = OPEN /\ ~attempt
        THEN [store |-> [s EXCEPT !.metrics.total_requests = @ + 1],
              at_invoke |-> s, invoked |-> 0,
              outcome |-> "raised_cbe", t_end |-> t]
        ELSE IF beh.ok
        THEN [store |-> record_success(s_inv, t + d), at_invoke |-> s_inv,
              invoked |-> 1, outcome |-> "returned", t_end |-> t + d]
        ELSE [store |-> record_failure(s_inv, beh, t + d), at_invoke |-> s_inv,
              invoked |-> 1, outcome |-> "raised_op", t_end |-> t + d]

(***************************************************************************)
(* call(func): t is the time of the call, d the duration of the operation. *)
(* The result names the store after the call, the store at the moment the  *)
(* operation was invoked, how many times it was invoked, and how call()    *)
(* ended: "returned", "raised_op" (the operation's failure re-raised at    *)
(* line 291) or "raised_cbe" (CircuitBreakerError raised at line 276).     *)
(***************************************************************************)
call(s, beh, t, d) ==
    LET current_state == s.state
        attempt == can_attempt_reset(s, t)
        s_inv == IF current_state = OPEN
                 THEN state_setter(s, HALF_OPEN, t)
                 ELSE s
    IN  IF current_state = OPEN /\ ~attempt
        THEN [store |-> s, at_invoke |-> s, invoked |-> 0,
              outcome |-> "raised_cbe", t_end |-> t]
        ELSE IF beh.ok
        THEN [store |-> record_success(s_inv, t + d), at_invoke |-> s_inv,
              invoked |-> 1, outcome |-> "returned", t_end |-> t + d]
        ELSE [store |-> record_failure(s_inv, beh, t + d), at_invoke |-> s_inv,
              invoked |-> 1, outcome |-> "raised_op", t_end |-> t + d]

\* faulty variant: last_failure_time is stamped with the time of the reset
reset_stamps_time(s, t) ==
    [state_setter(s, CLOSED, t) EXCEPT !.failure_count = 0,
                                       !.success_count = 0,
                                       !.last_failure_time = t]

reset(s, t) ==
    [state_setter(s, CLOSED, t) EXCEPT !.failure_count = 0,
                                       !.success_count = 0,
                                       !.last_failure_time = 0]

(***************************************************************************)
(* RateLimiter.  A dict is a function from its keys; {} is EmptyDict.      *)
(* A cache key is a record: f"rate_limit:{service}:{window}:{bucket}" with *)
(* the ":{user_id}" suffix of a burst key in the field user ("" when the   *)
(* key has no suffix).  A cache entry holds the value and the time at      *)
(* which its TTL runs out.                                                 *)
(***************************************************************************)
MinuteWindow == 60
DayWindow == 86400
burst_window == 10
MinuteTTL == 120
DayTTL == 90000
BurstTTL == 20

EmptyDict == <<>>
EmptyCache == <<>>
dict_get(d, key, default) == IF key \in DOMAIN d THEN d[key] ELSE default

\* user_id = None is NoUser; `if user_id:` is false for it
NoUser == ""
Users == {NoUser, "u1", "u2"}
Services == {"gemini_api", "tesseract", "unknown_service"}

\* self.limits for the settings GEMINI_RPM, GEMINI_RPD, GEMINI_BURST
RateLimiterLimits ==
    { [gemini_api |-> [requests_per_minute |-> rpm, requests_per_day |-> rpd,
                       burst_limit |-> burst, enabled |-> TRUE],
       tesseract  |-> [enabled |-> FALSE]] :
        rpm \in 0..MaxRpm, rpd \in 0..MaxRpd, burst \in 0..MaxBurst }
DefaultLimits == CHOOSE l \in RateLimiterLimits :
    /\ l.gemini_api.requests_per_minute = MaxRpm
    /\ l.gemini_api.requests_per_day = MaxRpd
    /\ l.gemini_api.burst_limit = MaxBurst

cache_get(c, key, default, t) ==
    IF key \in DOMAIN c /\ c[key].expires > t THEN c[key].value ELSE default

cache_set(c, key, value, ttl, t) ==
    [k \in DOMAIN c \cup {key} |->
        IF k = key THEN [value |-> value, expires |-> t + ttl] ELSE c[k]]

\* entries whose TTL has run out are gone
cache_expire(c, t) ==
    [k \in {x \in DOMAIN c : c[x].expires > t} |-> c[k]]

minute_key(service, current_time) ==
    [service |-> service, window |-> "minute",
     bucket |-> current_time \div MinuteWindow, user |-> ""]

day_key(service, current_time) ==
    [service |-> service, window |-> "day",
     bucket |-> current_time \div DayWindow, user |-> ""]

\* faulty variant: one burst counter for all identities
burst_key_shared(service, current_time, user_id) ==
    [service |-> service, window |-> "burst",
     bucket |-> current_time \div burst_window, user |-> ""]

burst_key(service, current_time, user_id) ==
    [service |-> service, window |-> "burst",
     bucket |-> current_time \div burst_window,
     user |-> IF user_id # NoUser THEN user_id ELSE ""]

\* a decision, with -1 / "" in the keys the returned dict does not have
Decision ==
    [allowed |-> TRUE, reason |-> "", service |-> "", limit |-> -1,
     current |-> -1, reset_in |-> -1, window |-> "", user_id |-> "",
     failsafe |-> FALSE, remaining_minute |-> -1, remaining_daily |-> -1]

\* faulty variant: admits one call more than the cap
minute_limit_passed(current_count, rpm_limit) == current_count > rpm_limit

minute_limit_reached(current_count, rpm_limit) == current_count >= rpm_limit

\* faulty variant: reset_in is the time elapsed in the bucket
check_minute_limit_elapsed(c, service, current_time, lim) ==
    LET current_count == cache_get(c, minute_key(service, current_time), 0, current_time)
        rpm_limit == dict_get(lim, "requests_per_minute", 0)
    IN  IF minute_limit_reached(current_count, rpm_limit)
        THEN [Decision EXCEPT !.allowed = FALSE,
                              !.reason = "minute_limit_exceeded",
                              !.limit = rpm_limit,
                              !.current = current_count,
                              !.reset_in = current_time % MinuteWindow,
                              !.window = "minute"]
        ELSE Decision

check_minute_limit(c, service, current_time, lim) ==
    LET current_count == cache_get(c, minute_key(service, current_time), 0, current_time)
        rpm_limit == dict_get(lim, "requests_per_minute", 0)
    IN  IF minute_limit_reached(current_count, rpm_limit)
        THEN [Decision EXCEPT !.allowed = FALSE,
                              !.reason = "minute_limit_exceeded",
                              !.limit = rpm_limit,
                              !.current = current_count,
                              !.reset_in = MinuteWindow - (current_time % MinuteWindow),
                              !.window = "minute"]
        ELSE Decision

check_daily_limit(c, service, current_time, lim) ==
    LET current_count == cache_get(c, day_key(service, current_time), 0, current_time)
        rpd_limit == dict_get(lim, "requests_per_day", 0)
    IN  IF current_count >= rpd_limit
        THEN [Decision EXCEPT !.allowed = FALSE,
                              !.reason = "daily_limit_exceeded",
                              !.limit = rpd_limit,
                              !.current = current_count,
                              !.reset_in = DayWindow - (current_time % DayWindow),
                              !.window = "daily"]
        ELSE Decision

check_burst_limit(c, service, current_time, lim, user_id) ==
    LET current_count == cache_get(c, burst_key(service, current_time, user_id), 0, current_time)
        burst_limit == dict_get(lim, "burst_limit", 0)
    IN  IF current_count >= burst_limit
        THEN [Decision EXCEPT !.allowed = FALSE,
                              !.reason = "burst_limit_exceeded",
                              !.limit = burst_limit,
                              !.current = current_count,
                              !.reset_in = burst_window - (current_time % burst_window),
                              !.window = "burst",
                              !.user_id = user_id]
        ELSE Decision

\* faulty variant: the day counter is not incremented
record_request_skips_day(c, service, current_time, user_id) ==
    LET mk == minute_key(service, current_time)
        bk == burst_key(service, current_time, user_id)
        c1 == cache_set(c, mk, cache_get(c, mk, 0, current_time) + 1, MinuteTTL, current_time)
        c3 == cache_set(c1, bk, cache_get(c1, bk, 0, current_time) + 1, BurstTTL, current_time)
    IN  c3

\* faulty variant: the minute counter is not written
record_request_without_minute(c, service, current_time, user_id) ==
    LET dk == day_key(service, current_time)
        bk == burst_key(service, current_time, user_id)
        c2 == cache_set(c, dk, cache_get(c, dk, 0, current_time) + 1, DayTTL, current_time)
    IN  cache_set(c2, bk, cache_get(c2, bk, 0, current_time) + 1, BurstTTL, current_time)

record_request(c, service, current_time, user_id) ==
    LET mk == minute_key(service, current_time)
        dk == day_key(service, current_time)
        bk == burst_key(service, current_time, user_id)
        c1 == cache_set(c, mk, cache_get(c, mk, 0, current_time) + 1, MinuteTTL, current_time)
        c2 == cache_set(c1, dk, cache_get(c1, dk, 0, current_time) + 1, DayTTL, current_time)
        c3 == cache_set(c2, bk, cache_get(c2, bk, 0, current_time) + 1, BurstTTL, current_time)
    IN  c3

max0(x) == IF x > 0 THEN x ELSE 0

get_remaining_requests(c, service, current_time, window) ==
    LET service_limits == dict_get(limits, service, EmptyDict)
    IN  IF window = "minute"
        THEN max0(dict_get(service_limits, "requests_per_minute", 0)
                  - cache_get(c, minute_key(service, current_time), 0, current_time))
        ELSE IF window = "daily"
        THEN max0(dict_get(service_limits, "requests_per_day", 0)
                  - cache_get(c, day_key(service, current_time), 0, current_time))
        ELSE 0

\* faulty variant: the enabled flag is not consulted
rate_limiting_bypassed_unconfigured(service_limits) ==
    service_limits = EmptyDict

\* line 46: not service_limits or not service_limits.get('enabled', False)
rate_limiting_bypassed(service_limits) ==
    service_limits = EmptyDict \/ ~dict_get(service_limits, "enabled", FALSE)

\* faulty variant: the request is recorded before the window checks are consulted
check_rate_limit_records_first(c, service, user_id, current_time) ==
    LET service_limits == dict_get(limits, service, EmptyDict)
        keys == {minute_key(service, current_time), day_key(service, current_time),
                 burst_key(service, current_time, user_id)}
        checks == << check_minute_limit(c, service, current_time, service_limits),
                     check_daily_limit(c, service, current_time, service_limits),
                     check_burst_limit(c, service, current_time, service_limits, user_id) >>
        failing == {i \in 1..3 : ~checks[i].allowed}
        first == CHOOSE i \in failing : \A j \in failing : i <= j
        c1 == record_request(c, service, current_time, user_id)
    IN  IF rate_limiting_bypassed(service_limits)
        THEN [decision |-> [Decision EXCEPT !.service = service],
              store |-> c, reads |-> {}, writes |-> {}]
        ELSE IF failing # {}
        THEN [decision |-> checks[first], store |-> c1, reads |-> keys, writes |-> keys]
        ELSE [decision |-> [Decision EXCEPT !.service = service],
              store |-> c1, reads |-> keys, writes |-> keys]

\* faulty variant: the denial returned is that of the last failing window
check_rate_limit_last_failing(c, service, user_id, current_time) ==
    LET service_limits == dict_get(limits, service, EmptyDict)
        keys == {minute_key(service, current_time), day_key(service, current_time),
                 burst_key(service, current_time, user_id)}
        checks == << check_minute_limit(c, service, current_time, service_limits),
                     check_daily_limit(c, service, current_time, service_limits),
                     check_burst_limit(c, service, current_time, service_limits, user_id) >>
        failing == {i \in 1..3 : ~checks[i].allowed}
        first == CHOOSE i \in failing : \A j \in failing : i >= j
        c1 == record_request(c, service, current_time, user_id)
    IN  IF rate_limiting_bypassed(service_limits)
        THEN [decision |-> [Decision EXCEPT
                                !.reason = IF service_limits = EmptyDict
                                           THEN "no_limits_configured"
                                           ELSE "rate_limiting_disabled",
                                !.service = service],
              store |-> c, reads |-> {}, writes |-> {}]
        ELSE IF failing # {}
        THEN [decision |-> checks[first], store |-> c, reads |-> keys, writes |-> {}]
        ELSE [decision |-> [Decision EXCEPT
                                !.service = service,
                                !.remaining_minute =
                                    get_remaining_requests(c1, service, current_time, "minute"),
                                !.remaining_daily =
                                    get_remaining_requests(c1, service, current_time, "daily")],
              store |-> c1, reads |-> keys, writes |-> keys]

(***************************************************************************)
(* check_rate_limit(service, user_id) at time current_time on the cache c: *)
(* the decision returned, the cache afterwards, and the keys it read and   *)
(* wrote.  The three window checks are all evaluated (the list of line 56) *)
(* before the first failing one is returned.                               *)
(***************************************************************************)
check_rate_limit(c, service, user_id, current_time) ==
    LET service_limits == dict_get(limits, service, EmptyDict)
        keys == {minute_key(service, current_time), day_key(service, current_time),
                 burst_key(service, current_time, user_id)}
        checks == << check_minute_limit(c, service, current_time, service_limits),
                     check_daily_limit(c, service, current_time, service_limits),
                     check_burst_limit(c, service, current_time, service_limits, user_id) >>
        failing == {i \in 1..3 : ~checks[i].allowed}
        first == CHOOSE i \in failing : \A j \in failing : i <= j
        c1 == record_request(c, service, current_time, user_id)
    IN  IF rate_limiting_bypassed(service_limits)
        THEN [decision |-> [Decision EXCEPT
                                !.reason = IF service_limits = EmptyDict
                                           THEN "no_limits_configured"
                                           ELSE "rate_limiting_disabled",
                                !.service = service],
              store |-> c, reads |-> {}, writes |-> {}]
        ELSE IF failing # {}
        THEN [decision |-> checks[first], store |-> c, reads |-> keys, writes |-> {}]
        ELSE [decision |-> [Decision EXCEPT
                                !.service = service,
                                !.remaining_minute =
                                    get_remaining_requests(c1, service, current_time, "minute"),
                                !.remaining_daily =
                                    get_remaining_requests(c1, service, current_time, "daily")],
              store |-> c1, reads |-> keys, writes |-> keys]

(***************************************************************************)
(* check_rate_limit over a store whose accesses may raise.  A pattern e    *)
(* names the accesses that raise: e.check the window check whose read      *)
(* raises (1 minute, 2 day, 3 burst; 0 none), e.record the counter whose   *)
(* get or set in _record_request raises (1 minute, 2 day, 3 burst; 0       *)
(* none), e.remaining the windows whose read in _get_remaining_requests    *)
(* raises.                                                                 *)
(***************************************************************************)
StoreErrors ==
    { e \in [check : 0..3, record : 0..3, remaining : SUBSET {"minute", "daily"}] :
        e.check # 0 => (e.record = 0 /\ e.remaining = {}) }

\* _record_request: the exception of lines 179-180 ends the recording where
\* the access raised and is not passed on
record_request_store_errors(c, service, current_time, user_id, e) ==
    LET mk == minute_key(service, current_time)
        dk == day_key(service, current_time)
        bk == burst_key(service, current_time, user_id)
        c1 == cache_set(c, mk, cache_get(c, mk, 0, current_time) + 1, MinuteTTL, current_time)
        c2 == cache_set(c1, dk, cache_get(c1, dk, 0, current_time) + 1, DayTTL, current_time)
    IN  IF e.record = 0 THEN record_request(c, service, current_time, user_id)
        ELSE IF e.record = 1 THEN c
        ELSE IF e.record = 2 THEN c1
        ELSE c2

\* _get_remaining_requests: 0 when its read raises (lines 198-200)
get_remaining_requests_store_errors(c, service, current_time, window, e) ==
    IF window \in e.remaining THEN 0
    ELSE get_remaining_requests(c, service, current_time, window)

check_rate_limit_store_errors(c, service, user_id, current_time, e) ==
    LET service_limits == dict_get(limits, service, EmptyDict)
        r == check_rate_limit(c, service, user_id, current_time)
        keys == << minute_key(service, current_time), day_key(service, current_time),
                   burst_key(service, current_time, user_id) >>
        c1 == record_request_store_errors(c, service, current_time, user_id, e)
    IN  IF rate_limiting_bypassed(service_limits)
        THEN [decision |-> r.decision, store |-> c, reads |-> {}, writes |-> {},
              raised |-> {}]
        ELSE IF e.check # 0
        THEN \* lines 81-84
             [decision |-> [Decision EXCEPT !.failsafe = TRUE],
              store |-> c, reads |-> {keys[i] : i \in 1..e.check}, writes |-> {},
              raised |-> {"check"}]
        ELSE IF ~r.decision.allowed
        THEN [decision |-> r.decision, store |-> c, reads |-> r.reads, writes |-> {},
              raised |-> {}]
        ELSE [decision |-> [Decision EXCEPT
                                !.service = service,
                                !.remaining_minute =
                                    get_remaining_requests_store_errors(
                                        c1, service, current_time, "minute", e),
                                !.remaining_daily =
                                    get_remaining_requests_store_errors(
                                        c1, service, current_time, "daily", e)],
              store |-> c1, reads |-> r.reads,
              writes |-> {k \in r.writes : cache_get(c1, k, 0, current_time)
                                            # cache_get(c, k, 0, current_time)},
              raised |-> (IF e.record # 0 THEN {"record"} ELSE {})
                         \cup (IF e.remaining # {} THEN {"remaining"} ELSE {})]

NoRl ==
    [seq |-> 0, service |-> "", decision |-> Decision,
     reads |-> {}, writes |-> {}, minute |-> 0, allowed_in_minute |-> 0,
     burst |-> 0, allowed_in_burst |-> [u \in Users |-> 0]]

(***************************************************************************)
(* Threads calling one breaker.  A thread is at a program point pc of      *)
(* call(); its local variables are the fields of its record.               *)
(***************************************************************************)
Threads == {1, 2}
Processes == {1, 2}

IdleThread ==
    [pc |-> "idle",
     beh |-> [ok |-> TRUE, expected |-> FALSE, timeout |-> FALSE],
     cur |-> CLOSED, old |-> CLOSED, new |-> CLOSED, ret |-> "idle",
     m |-> initialize_metrics, n |-> 0,
     invoked |-> 0, wrote |-> FALSE, wrote_metrics |-> FALSE, outcome |-> "none"]

\* the locals of a thread that is not inside check_rate_limit; admitted
\* (history) tells that its check returned allowed = True after passing the
\* window checks, for the service and in the minute bucket it then keeps
IdleLimiterThread ==
    [pc |-> "idle", service |-> "", user_id |-> NoUser, current_time |-> 0,
     minute |-> 0, day |-> 0, n |-> 0, done |-> FALSE,
     admitted |-> FALSE, bucket |-> 0]
LimiterThreads == {1, 2, 3}

\* the breaker names handed to get_breaker
Names == {"gemini_categorization", "gemini_extraction"}
\* CircuitBreakerConfig.name when the caller builds the config and leaves
\* the field alone
DefaultName == "default"
\* self.name = config.name: the names the cache keys are made of
KeyNames == Names \cup {DefaultName}
\* config = None
NoConfig == [failure_threshold |-> 0, recovery_timeout |-> 0, success_threshold |-> 0]
\* _breakers has no entry for the name.  An entry is the CircuitBreaker
\* object: serial tells the objects constructed for one name apart, key is
\* its self.name, and built (history) counts the constructions for the name
\* in this process.
NoBreaker == [serial |-> 0, config |-> NoConfig, key |-> "", built |-> 0]
\* the cache has no entry under the breaker's state key
NoStore ==
    [state |-> "absent", failure_count |-> 0, success_count |-> 0,
     last_failure_time |-> 0, metrics |-> initialize_metrics]
\* the locals of a thread that is not inside get_breaker; got is the breaker
\* it was handed, existed (history) whether the name's state was in the store
\* when its get_breaker began, outcome / invoked how its call() ended
IdleManagerThread ==
    [pc |-> "idle", name |-> "", config |-> NoConfig, config_name |-> "",
     instance |-> NoBreaker,
     got |-> NoBreaker, existed |-> FALSE, outcome |-> "none", invoked |-> 0]

\* no query has been made
NoQuery == [op |-> "none", service |-> "", result |-> <<>>]
\* predict_category has not been called.  called: circuit_breaker.call was
\* made; invoked: _perform_gemini_api_call was entered
NoPrediction ==
    [method |-> "none", denied |-> FALSE, cbe |-> FALSE, failed |-> FALSE,
     called |-> FALSE, invoked |-> 0]

\* no limiter thread, no manager, no query: the state of the variables that
\* the other specifications leave alone
NoService ==
    /\ lth = [t \in LimiterThreads |-> IdleLimiterThread]
    /\ query = NoQuery
    /\ breakers = [p \in Processes |-> [nm \in Names |-> NoBreaker]]
    /\ stored = [nm \in KeyNames |-> NoStore]
    /\ manager_lock = [p \in Processes |-> 0]
    /\ mth = [t \in Threads |-> IdleManagerThread]
    /\ delete_pattern = FALSE
    /\ categories = "none"
    /\ prediction = NoPrediction

\* no thread exists: the breaker is driven by one sequential caller
NoThreads ==
    /\ proc = [t \in Threads |-> 0]
    /\ faults = FALSE
    /\ th = [t \in Threads |-> IdleThread]
    /\ lock = [p \in Processes |-> 0]
    /\ tally = [successes |-> 0, failures |-> 0]
    /\ NoService

(***************************************************************************)
(* The breaker driven by one sequential caller                             *)
(***************************************************************************)
NoLast ==
    [op |-> "init", prev_op |-> "init",
     beh |-> [ok |-> TRUE, expected |-> FALSE, timeout |-> FALSE],
     invoked |-> 0, outcome |-> "none", state_at_invoke |-> CLOSED, pre_sc |-> 0]

Fresh(s) == s.state = CLOSED /\ s.failure_count = 0

BreakerInit ==
    /\ config \in CircuitBreakerConfig
    /\ cb = initialize_state
    /\ now = 0
    /\ calls = 0
    /\ last = NoLast
    /\ streak = 0
    /\ limits = DefaultLimits
    /\ counters = EmptyCache
    /\ rl = NoRl
    /\ raised = {}
    /\ NoThreads

Call ==
    \E beh \in Behaviours, d \in 0..MaxOpDuration :
        LET r == call(cb, beh, now, d)
        IN  /\ calls < MaxCalls
            /\ r.t_end <= MaxTime
            /\ r.invoked = 0 => d = 0
            /\ cb' = r.store
            /\ now' = r.t_end
            /\ calls' = calls + 1
            /\ last' = [op |-> "call", prev_op |-> last.op, beh |-> beh,
                        invoked |-> r.invoked, outcome |-> r.outcome,
                        state_at_invoke |-> r.at_invoke.state,
                        pre_sc |-> cb.success_count]
            /\ streak' = IF r.invoked = 0
                         THEN streak
                         ELSE IF streak >= 0 /\ ~beh.ok /\ beh.expected
                         THEN streak + 1
                         ELSE IF Fresh(r.store) THEN 0 ELSE -1
            /\ UNCHANGED <<config, limits, counters, rl, raised>>
            /\ UNCHANGED <<threadvars, servicevars>>

Reset ==
    /\ calls < MaxCalls
    /\ cb' = reset(cb, now)
    /\ calls' = calls + 1
    /\ last' = [NoLast EXCEPT !.op = "reset", !.prev_op = last.op]
    /\ streak' = 0
    /\ UNCHANGED <<config, now, limits, counters, rl, raised>>
    /\ UNCHANGED <<threadvars, servicevars>>

Tick ==
    /\ now < MaxTime
    /\ now' = now + 1
    /\ UNCHANGED <<config, cb, calls, last, streak, limits, counters, rl, raised>>
    /\ UNCHANGED <<threadvars, servicevars>>

BreakerNext == Call \/ Reset \/ Tick

SpecBreaker == BreakerInit /\ [][BreakerNext]_vars

(***************************************************************************)
(* Properties of the breaker                                               *)
(***************************************************************************)
IsCall == calls' = calls + 1 /\ last'.op = "call"
IsReset == calls' = calls + 1 /\ last'.op = "reset"
ExpectedFailure(beh) == ~beh.ok /\ beh.expected
UnexpectedFailure(beh) == ~beh.ok /\ ~beh.expected

\* C1: starting CLOSED with failure_count 0, the breaker is still CLOSED after
\* each of the first N-1 consecutive expected failures (N = failure_threshold),
\* it is OPEN after the Nth, and a call made then before recovery_timeout has
\* elapsed since that failure raises CircuitBreakerError without invoking the
\* operation.
C1_StreakState ==
    /\ (streak >= 1 /\ streak < config.failure_threshold)
            => (cb.state = CLOSED /\ cb.failure_count = streak)
    /\ streak = config.failure_threshold => cb.state = OPEN
C1_RejectAfterNth ==
    (IsCall /\ streak = config.failure_threshold
            /\ now < cb.last_failure_time + config.recovery_timeout)
        => (last'.outcome = "raised_cbe" /\ last'.invoked = 0)
C1_OpensOnNth == []C1_StreakState /\ [][C1_RejectAfterNth]_vars
C1_Witness ==
    /\ config.failure_threshold = MaxFailureThreshold
    /\ streak = config.failure_threshold
    /\ last.op = "call" /\ last.outcome = "raised_cbe"

\* C2: while the breaker is OPEN, opened at t0 = last_opened_at, a call at
\* t < t0 + recovery_timeout raises CircuitBreakerError and does not invoke the
\* operation; a call at t >= t0 + recovery_timeout sets HALF_OPEN and invokes
\* the operation exactly once.
C2_Step ==
    (IsCall /\ cb.state = OPEN) =>
        IF now < cb.metrics.last_opened_at + config.recovery_timeout
        THEN last'.outcome = "raised_cbe" /\ last'.invoked = 0 /\ cb'.state = OPEN
        ELSE /\ last'.invoked = 1
             /\ last'.outcome # "raised_cbe"
             /\ last'.state_at_invoke = HALF_OPEN
C2_RecoveryWindow == [][C2_Step]_vars
C2_Witness ==
    /\ config.recovery_timeout >= 1
    /\ last.op = "call" /\ last.invoked = 1
    /\ last.state_at_invoke = HALF_OPEN
    /\ cb.state = HALF_OPEN
    /\ now >= cb.metrics.last_opened_at + config.recovery_timeout

\* C3: a success in HALF_OPEN adds 1 to success_count and leaves HALF_OPEN
\* while the new count is below success_threshold; the success that reaches
\* success_threshold sets CLOSED with failure_count = success_count = 0.
C3_Step ==
    (IsCall /\ last'.invoked = 1 /\ last'.beh.ok
            /\ last'.state_at_invoke = HALF_OPEN) =>
        IF cb.success_count + 1 < config.success_threshold
        THEN /\ cb'.state = HALF_OPEN
             /\ cb'.success_count = cb.success_count + 1
        ELSE /\ cb.success_count + 1 = config.success_threshold
             /\ cb'.state = CLOSED
             /\ cb'.failure_count = 0
             /\ cb'.success_count = 0
C3_HalfOpenSuccess == [][C3_Step]_vars
C3_Witness ==
    /\ config.success_threshold = MaxSuccessThreshold
    /\ last.op = "call" /\ last.beh.ok /\ last.state_at_invoke = HALF_OPEN
    /\ last.pre_sc = config.success_threshold - 1
    /\ cb.state = CLOSED

\* C4: an expected failure in HALF_OPEN sets OPEN at once, zeroes
\* success_count, adds 1 to failure_count and sets last_failure_time to the
\* time of the failure; a call made before recovery_timeout has elapsed since
\* then is rejected.
C4_Step ==
    /\ (IsCall /\ last'.invoked = 1 /\ ExpectedFailure(last'.beh)
               /\ last'.state_at_invoke = HALF_OPEN) =>
            /\ cb'.state = OPEN
            /\ cb'.success_count = 0
            /\ cb'.failure_count = cb.failure_count + 1
            /\ cb'.last_failure_time = now'
    /\ (IsCall /\ last.op = "call" /\ last.invoked = 1
               /\ ExpectedFailure(last.beh) /\ last.state_at_invoke = HALF_OPEN
               /\ now < cb.last_failure_time + config.recovery_timeout) =>
            (last'.outcome = "raised_cbe" /\ last'.invoked = 0)
C4_HalfOpenFailure == [][C4_Step]_vars
C4_Witness ==
    /\ last.op = "call" /\ last.invoked = 1 /\ ExpectedFailure(last.beh)
    /\ last.state_at_invoke = HALF_OPEN
    /\ last.pre_sc >= 1
    /\ cb.state = OPEN
    /\ cb.success_count = 0
    /\ cb.failure_count = config.failure_threshold + 1

\* C5: a failure of an unexpected kind leaves state, counters,
\* last_failure_time and metrics as they were when the operation was invoked
\* (HALF_OPEN stays HALF_OPEN), and call() raises the operation's failure.
C5_Step ==
    (IsCall /\ last'.invoked = 1 /\ UnexpectedFailure(last'.beh)) =>
        /\ last'.outcome = "raised_op"
        /\ cb'.state = last'.state_at_invoke
        /\ cb' = [cb EXCEPT !.state = IF @ = OPEN THEN HALF_OPEN ELSE @]
C5_UnexpectedFailure == [][C5_Step]_vars
C5_Witness ==
    /\ last.op = "call" /\ last.invoked = 1 /\ UnexpectedFailure(last.beh)
    /\ last.state_at_invoke = HALF_OPEN
    /\ cb.state = HALF_OPEN
    /\ cb.success_count >= 1

\* C6: call() returns the operation's result, raises the operation's failure,
\* or raises CircuitBreakerError; it raises CircuitBreakerError exactly when
\* the breaker is OPEN and recovery_timeout has not elapsed, and then the
\* operation is not invoked; otherwise the operation is invoked exactly once.
C6_Step ==
    IsCall =>
        /\ last'.outcome \in {"returned", "raised_op", "raised_cbe"}
        /\ last'.outcome = "raised_cbe" => last'.invoked = 0
        /\ last'.outcome = "raised_cbe" <=>
                (cb.state = OPEN /\ now - cb.last_failure_time < config.recovery_timeout)
        /\ last'.outcome # "raised_cbe" => last'.invoked = 1
        /\ last'.outcome = "returned" <=> (last'.invoked = 1 /\ last'.beh.ok)
        /\ last'.outcome = "raised_op" <=> (last'.invoked = 1 /\ ~last'.beh.ok)
C6_Outcomes == [][C6_Step]_vars
C6_Witness ==
    /\ last.op = "call" /\ last.outcome = "raised_cbe" /\ last.invoked = 0
    /\ cb.metrics.total_successes >= 1
    /\ cb.metrics.total_failures >= 1

\* C7: reset() leaves CLOSED with failure_count, success_count and
\* last_failure_time 0, and a reset() that follows a reset() changes no
\* persisted field, the metrics included.
C7_Step ==
    IsReset =>
        /\ cb'.state = CLOSED
        /\ cb'.failure_count = 0
        /\ cb'.success_count = 0
        /\ cb'.last_failure_time = 0
        /\ last.op = "reset" => cb' = cb
C7_ResetIdempotent == [][C7_Step]_vars
C7_Witness ==
    /\ last.op = "reset" /\ last.prev_op = "reset"
    /\ cb.metrics.total_circuit_opens >= 1
    /\ cb.metrics.total_circuit_closes = 1
    /\ cb.metrics.last_closed_at < now

(***************************************************************************)
(* The rate limiter driven by one sequential caller.  The clock moves     *)
(* forward to any later instant of TimePoints.                             *)
(***************************************************************************)
TimePoints == {0, 9, 10, 60, 86400}

LimiterInit ==
    /\ config = CHOOSE cfg \in CircuitBreakerConfig : TRUE
    /\ cb = initialize_state
    /\ now = 0
    /\ calls = 0
    /\ last = NoLast
    /\ streak = 0
    /\ limits \in RateLimiterLimits
    /\ counters = EmptyCache
    /\ rl = NoRl
    /\ raised = {}
    /\ NoThreads

\* one check_rate_limit(service, user_id) made by a caller who makes at most
\* budget operations
CheckFor(services, users, budget) ==
    \E service \in services, user_id \in users :
        LET r == check_rate_limit(counters, service, user_id, now)
            m == now \div MinuteWindow
            before == IF rl.minute = m THEN rl.allowed_in_minute ELSE 0
            b == now \div burst_window
            before_burst == IF rl.burst = b THEN rl.allowed_in_burst
                            ELSE [u \in Users |-> 0]
        IN  /\ calls < budget
            /\ calls' = calls + 1
            /\ counters' = r.store
            /\ rl' = [seq |-> 1 - rl.seq, service |-> service,
                      decision |-> r.decision, reads |-> r.reads, writes |-> r.writes,
                      minute |-> m,
                      allowed_in_minute |->
                          IF service = "gemini_api" /\ r.decision.allowed
                          THEN before + 1 ELSE before,
                      burst |-> b,
                      allowed_in_burst |->
                          IF service = "gemini_api" /\ r.decision.allowed
                          THEN [before_burst EXCEPT ![user_id] = @ + 1]
                          ELSE before_burst]
            /\ raised' = {}
            /\ UNCHANGED <<config, cb, now, last, streak, limits>>
            /\ UNCHANGED <<threadvars, servicevars>>

Check == CheckFor(Services, Users, MaxChecks)

LimiterTick ==
    \E t \in TimePoints :
        /\ t > now
        /\ now' = t
        /\ counters' = cache_expire(counters, t)
        /\ UNCHANGED <<config, cb, calls, last, streak, limits, rl, raised>>
        /\ UNCHANGED <<threadvars, servicevars>>

LimiterNext == Check \/ LimiterTick

SpecLimiter == LimiterInit /\ [][LimiterNext]_vars

(***************************************************************************)
(* Properties of the rate limiter                                          *)
(***************************************************************************)
IsCheck == rl'.seq # rl.seq
\* decisions with allowed = true already returned for gemini_api in the
\* minute bucket of the current time
AllowedInCurrentMinute ==
    IF rl.minute = now \div MinuteWindow THEN rl.allowed_in_minute ELSE 0
StoredCount(key) == cache_get(counters, key, 0, now)

\* C8: with requests_per_minute = K, a check in a minute bucket in which K
\* checks were already allowed is denied with reason minute_limit_exceeded;
\* a check in a bucket with fewer than K allowed so far, the day and burst
\* caps not being reached, is allowed.
C8_Step ==
    (IsCheck /\ rl'.service = "gemini_api") =>
        IF AllowedInCurrentMinute >= limits.gemini_api.requests_per_minute
        THEN /\ ~rl'.decision.allowed
             /\ rl'.decision.reason = "minute_limit_exceeded"
        ELSE ( /\ StoredCount(day_key("gemini_api", now))
                    < limits.gemini_api.requests_per_day
               /\ \A k \in rl'.reads : k.window = "burst" =>
                    StoredCount(k) < limits.gemini_api.burst_limit )
             => rl'.decision.allowed
C8_MinuteCap == [][C8_Step]_vars
C8_Witness ==
    /\ limits.gemini_api.requests_per_minute = MaxRpm
    /\ rl.service = "gemini_api"
    /\ ~rl.decision.allowed
    /\ rl.decision.reason = "minute_limit_exceeded"
    /\ rl.minute = now \div MinuteWindow
    /\ rl.allowed_in_minute = MaxRpm

\* C9: a check that returns allowed = false writes nothing: every counter of
\* the store is as it was before the call.
C9_Step ==
    (IsCheck /\ ~rl'.decision.allowed) =>
        (counters' = counters /\ rl'.writes = {})
C9_DenialWritesNothing == [][C9_Step]_vars
C9_Witness ==
    /\ ~rl.decision.allowed
    /\ rl.decision.reason = "burst_limit_exceeded"
    /\ rl.decision.current >= 1
    /\ counters # EmptyCache

\* C10: a check for a service that is not configured or is disabled returns
\* allowed = true with reason no_limits_configured / rate_limiting_disabled,
\* and reads and writes no counter, whatever was checked before.
C10_Step ==
    (IsCheck /\ rl'.service # "gemini_api") =>
        /\ rl'.decision.allowed
        /\ ~rl'.decision.failsafe
        /\ rl'.decision.reason = IF rl'.service = "tesseract"
                                 THEN "rate_limiting_disabled"
                                 ELSE "no_limits_configured"
        /\ rl'.reads = {}
        /\ rl'.writes = {}
        /\ counters' = counters
C10_PassThrough == [][C10_Step]_vars
C10_Witness ==
    /\ rl.service = "tesseract"
    /\ rl.decision.allowed
    /\ calls = MaxChecks
    /\ limits.gemini_api.requests_per_minute >= 1
    /\ StoredCount(minute_key("gemini_api", now)) >= limits.gemini_api.requests_per_minute

\* the windows whose counter a check read
WindowsRead(keys) == {k.window : k \in keys}
MinuteCapReached ==
    StoredCount(minute_key("gemini_api", now)) >= limits.gemini_api.requests_per_minute
DayCapReached ==
    StoredCount(day_key("gemini_api", now)) >= limits.gemini_api.requests_per_day
BurstCapReached(keys) ==
    \E k \in keys : k.window = "burst" /\ StoredCount(k) >= limits.gemini_api.burst_limit
FirstFailingReason(keys) ==
    IF MinuteCapReached THEN "minute_limit_exceeded"
    ELSE IF DayCapReached THEN "daily_limit_exceeded"
    ELSE IF BurstCapReached(keys) THEN "burst_limit_exceeded"
    ELSE ""

\* C11 (as stated): for an enabled service the denial returned is that of the
\* first failing window in the order minute, day, burst, and no counter of a
\* window after the first failing one is read.
C11_OriginalStep ==
    (IsCheck /\ rl'.service = "gemini_api") =>
        /\ rl'.decision.reason = FirstFailingReason(rl'.reads)
        /\ MinuteCapReached => WindowsRead(rl'.reads) = {"minute"}
        /\ (~MinuteCapReached /\ DayCapReached)
                => WindowsRead(rl'.reads) = {"minute", "day"}
C11_ShortCircuit == [][C11_OriginalStep]_vars

\* C11 (amended): for an enabled service the denial returned is that of the
\* first failing window in the order minute, day, burst; the counters of all
\* three windows are read before any denial is returned, also those of the
\* windows after the first failing one.
C11_Step ==
    (IsCheck /\ rl'.service = "gemini_api") =>
        /\ rl'.decision.reason = FirstFailingReason(rl'.reads)
        /\ rl'.decision.allowed <=> FirstFailingReason(rl'.reads) = ""
        /\ WindowsRead(rl'.reads) = {"minute", "day", "burst"}
C11_FirstFailingWindow == [][C11_Step]_vars
C11_Witness ==
    /\ rl.service = "gemini_api"
    /\ ~rl.decision.allowed
    /\ rl.decision.reason = "minute_limit_exceeded"
    /\ limits.gemini_api.requests_per_minute >= 1
    /\ DayCapReached
    /\ BurstCapReached(rl.reads)
    /\ WindowsRead(rl.reads) = {"minute", "day", "burst"}

\* C12: when all three checks pass for an enabled service (one caller, the
\* store answering), the check increments the current minute, day and burst
\* counters by exactly 1 each and no other counter, returns allowed = true,
\* and reports remaining_minute = max(0, requests_per_minute - new minute
\* count) and remaining_daily = max(0, requests_per_day - new day count).
C12_Step ==
    (IsCheck /\ rl'.service = "gemini_api" /\ FirstFailingReason(rl'.reads) = "") =>
        LET NewCount(key) == cache_get(counters', key, 0, now)
        IN  /\ rl'.decision.allowed
            /\ ~rl'.decision.failsafe
            /\ WindowsRead(rl'.writes) = {"minute", "day", "burst"}
            /\ Cardinality(rl'.writes) = 3
            /\ \A k \in rl'.writes : NewCount(k) = StoredCount(k) + 1
            /\ \A k \in (DOMAIN counters \cup DOMAIN counters') \ rl'.writes :
                    NewCount(k) = StoredCount(k)
            /\ rl'.decision.remaining_minute =
                    max0(limits.gemini_api.requests_per_minute
                         - NewCount(minute_key("gemini_api", now)))
            /\ rl'.decision.remaining_daily =
                    max0(limits.gemini_api.requests_per_day
                         - NewCount(day_key("gemini_api", now)))
C12_AdmitIncrements == [][C12_Step]_vars
C12_Witness ==
    /\ rl.service = "gemini_api"
    /\ rl.decision.allowed
    /\ rl.decision.remaining_minute = 0
    /\ rl.decision.remaining_daily = 1
    /\ StoredCount(minute_key("gemini_api", now)) = 1
    /\ StoredCount(day_key("gemini_api", now)) = 1
    /\ \E k \in rl.writes : k.window = "burst" /\ StoredCount(k) = 1

\* decisions with allowed = true already returned for gemini_api and identity
\* u in the 10-second bucket of the current time
AllowedInCurrentBurst(u) ==
    IF rl.burst = now \div burst_window THEN rl.allowed_in_burst[u] ELSE 0

\* C13: burst counters are per (service, 10-second bucket, identity).  With
\* burst_limit = B and the minute and day caps not reached, a check for an
\* identity with B checks already allowed in the current bucket is denied with
\* reason burst_limit_exceeded, a check for an identity with fewer than B is
\* allowed however many were allowed for the other identities, and no check
\* changes the burst counter of another identity.
C13_Step ==
    \A u \in Users :
        (IsCheck /\ rl'.service = "gemini_api"
                /\ burst_key("gemini_api", now, u) \in rl'.reads) =>
            /\ (~MinuteCapReached /\ ~DayCapReached) =>
                    IF AllowedInCurrentBurst(u) >= limits.gemini_api.burst_limit
                    THEN /\ ~rl'.decision.allowed
                         /\ rl'.decision.reason = "burst_limit_exceeded"
                    ELSE rl'.decision.allowed
            /\ \A v \in Users \ {u} :
                    cache_get(counters', burst_key("gemini_api", now, v), 0, now)
                        = StoredCount(burst_key("gemini_api", now, v))
C13_BurstPerIdentity == [][C13_Step]_vars
C13_Witness ==
    /\ rl.service = "gemini_api"
    /\ rl.decision.allowed
    /\ burst_key("gemini_api", now, "u2") \in rl.reads
    /\ limits.gemini_api.burst_limit >= 1
    /\ AllowedInCurrentBurst("u1") = limits.gemini_api.burst_limit
    /\ StoredCount(burst_key("gemini_api", now, "u1")) = limits.gemini_api.burst_limit
    /\ AllowedInCurrentBurst("u2") = 1

(***************************************************************************)
(* The rate limiter over a store whose accesses may raise                  *)
(***************************************************************************)
CheckStoreErrors ==
    \E service \in Services, user_id \in Users, e \in StoreErrors :
        LET r == check_rate_limit_store_errors(counters, service, user_id, now, e)
            m == now \div MinuteWindow
            before == IF rl.minute = m THEN rl.allowed_in_minute ELSE 0
            b == now \div burst_window
            before_burst == IF rl.burst = b THEN rl.allowed_in_burst
                            ELSE [u \in Users |-> 0]
        IN  /\ calls < MaxStoreErrorChecks
            \* every access that e names is one the check makes
            /\ e.check # 0 => "check" \in r.raised
            /\ e.record # 0 => "record" \in r.raised
            /\ e.remaining # {} => "remaining" \in r.raised
            /\ calls' = calls + 1
            /\ counters' = r.store
            /\ rl' = [seq |-> 1 - rl.seq, service |-> service,
                      decision |-> r.decision, reads |-> r.reads, writes |-> r.writes,
                      minute |-> m,
                      allowed_in_minute |->
                          IF service = "gemini_api" /\ r.decision.allowed
                          THEN before + 1 ELSE before,
                      burst |-> b,
                      allowed_in_burst |->
                          IF service = "gemini_api" /\ r.decision.allowed
                          THEN [before_burst EXCEPT ![user_id] = @ + 1]
                          ELSE before_burst]
            /\ raised' = r.raised
            /\ UNCHANGED <<config, cb, now, last, streak, limits>>
            /\ UNCHANGED <<threadvars, servicevars>>

LimiterStoreErrorsNext == CheckStoreErrors \/ LimiterTick

SpecLimiterStoreErrors == LimiterInit /\ [][LimiterStoreErrorsNext]_vars

\* C14: if a store read or write raises during a check of an enabled service
\* (in a window check, while recording the admitted request, or while
\* computing the remaining quota), the decision returned has allowed = true
\* and carries failsafe = true.
C14_Step ==
    (IsCheck /\ rl'.service = "gemini_api" /\ raised' # {}) =>
        (rl'.decision.allowed /\ rl'.decision.failsafe)
C14_FailOpenTagged == [][C14_Step]_vars

(***************************************************************************)
(* call() step by step.  Every action is one store access (cache.get or    *)
(* cache.set) of one thread together with the local computation up to its  *)
(* next access; pc names the access the thread makes next.  With faults    *)
(* set, an access may raise instead; the thread then continues at the      *)
(* handler the code has for it.  The lock is the RLock of the thread's     *)
(* process: _record_success and _record_failure run under it, the lines    *)
(* 267-278 of call() do not.                                               *)
(***************************************************************************)
MaxThreadTime == 1

Fails == IF faults THEN BOOLEAN ELSE {FALSE}

unthreaded == <<config, last, streak, limits, counters, rl, raised, proc, faults,
                servicevars>>

\* the thread's record on entering the state setter for new_state; ret is
\* the access that follows the setter
enter_setter(r, new_state, ret) ==
    [r EXCEPT !.pc = "setter_old", !.new = new_state, !.ret = ret]

\* the thread's record on leaving the state setter
leave_setter(r) ==
    [r EXCEPT !.pc = r.ret, !.old = CLOSED, !.new = CLOSED, !.ret = "idle",
              !.m = initialize_metrics]

\* the thread's record when call() has returned or raised
returned(r, outcome) ==
    [IdleThread EXCEPT !.outcome = outcome, !.invoked = r.invoked, !.cur = r.cur,
                       !.beh = [r.beh EXCEPT !.timeout = FALSE],
                       !.wrote = r.wrote, !.wrote_metrics = r.wrote_metrics]

\* call() is left: the thread's lock, if it holds it, is released
Return(t, r, outcome) ==
    /\ th' = [th EXCEPT ![t] = returned(r, outcome)]
    /\ lock' = [lock EXCEPT ![proc[t]] = IF @ = t THEN 0 ELSE @]

Goto(t, r) ==
    /\ th' = [th EXCEPT ![t] = r]
    /\ UNCHANGED lock

\* line 267: current_state = self.state
CallState(t) ==
    /\ proc[t] # 0
    /\ th[t].pc = "idle"
    \* each thread makes one call
    /\ th[t].outcome = "none"
    /\ calls' = calls + 1
    /\ \E fail \in Fails :
        LET current_state == IF fail THEN CLOSED ELSE cb.state
        IN  Goto(t, [IdleThread EXCEPT !.pc = IF current_state = OPEN
                                             THEN "can_attempt_reset_state"
                                             ELSE "func"])
    /\ UNCHANGED <<cb, now, tally>>
    /\ UNCHANGED unthreaded

\* line 149: self.state in _can_attempt_reset; CircuitBreakerError at 276
CanAttemptResetState(t) ==
    /\ th[t].pc = "can_attempt_reset_state"
    /\ \E fail \in Fails :
        LET state == IF fail THEN CLOSED ELSE cb.state
        IN  IF state # OPEN
            THEN Return(t, th[t], "raised_cbe")
            ELSE Goto(t, [th[t] EXCEPT !.pc = "can_attempt_reset_time"])
    /\ UNCHANGED <<cb, now, calls, tally>>
    /\ UNCHANGED unthreaded

\* line 152: self.last_failure_time, read outside every try
CanAttemptResetTime(t) ==
    /\ th[t].pc = "can_attempt_reset_time"
    /\ \E fail \in Fails :
        IF fail
        THEN Return(t, th[t], "raised_store_error")
        ELSE IF can_attempt_reset([state |-> OPEN,
                                   last_failure_time |-> cb.last_failure_time], now)
        THEN Goto(t, enter_setter(th[t], HALF_OPEN, "func"))
        ELSE Return(t, th[t], "raised_cbe")
    /\ UNCHANGED <<cb, now, calls, tally>>
    /\ UNCHANGED unthreaded

\* line 106: old_state = self.state
SetterOld(t) ==
    /\ th[t].pc = "setter_old"
    /\ \E fail \in Fails :
        Goto(t, [th[t] EXCEPT !.pc = "setter_set",
                              !.old = IF fail THEN CLOSED ELSE cb.state])
    /\ UNCHANGED <<cb, now, calls, tally>>
    /\ UNCHANGED unthreaded

\* line 107: cache.set(state_key, new_state)
SetterSet(t) ==
    /\ th[t].pc = "setter_set"
    /\ \E fail \in Fails :
        IF fail
        THEN /\ Goto(t, leave_setter(th[t]))
             /\ UNCHANGED cb
        ELSE /\ cb' = [cb EXCEPT !.state = th[t].new]
             /\ Goto(t, IF th[t].old # th[t].new
                        THEN [th[t] EXCEPT !.pc = "state_metrics_get", !.wrote = TRUE]
                        ELSE [leave_setter(th[t]) EXCEPT !.wrote = TRUE])
    /\ UNCHANGED <<now, calls, tally>>
    /\ UNCHANGED unthreaded

\* lines 118-126: metrics = cache.get(metrics_key), updated in the local copy
StateMetricsGet(t) ==
    /\ th[t].pc = "state_metrics_get"
    /\ \E fail \in Fails :
        IF fail
        THEN Goto(t, leave_setter(th[t]))
        ELSE Goto(t, [th[t] EXCEPT
                        !.pc = "state_metrics_set",
                        !.m = update_state_change_metrics(
                                  cb, th[t].old, th[t].new, now).metrics])
    /\ UNCHANGED <<cb, now, calls, tally>>
    /\ UNCHANGED unthreaded

\* line 128: cache.set(metrics_key, metrics)
StateMetricsSet(t) ==
    /\ th[t].pc = "state_metrics_set"
    /\ \E fail \in Fails :
        IF fail
        THEN /\ Goto(t, leave_setter(th[t]))
             /\ UNCHANGED cb
        ELSE /\ cb' = [cb EXCEPT !.metrics = th[t].m]
             /\ Goto(t, [leave_setter(th[t]) EXCEPT !.wrote = TRUE,
                                                    !.wrote_metrics = TRUE])
    /\ UNCHANGED <<now, calls, tally>>
    /\ UNCHANGED unthreaded

\* line 284: the operation runs and returns or raises
Func(t) ==
    /\ th[t].pc = "func"
    /\ \E beh \in Behaviours :
        /\ Goto(t, [th[t] EXCEPT !.pc = IF beh.ok THEN "record_success"
                                        ELSE "record_failure",
                                 !.beh = beh, !.invoked = 1])
        /\ tally' = IF beh.ok
                    THEN [tally EXCEPT !.successes = @ + 1]
                    ELSE IF beh.expected
                    THEN [tally EXCEPT !.failures = @ + 1]
                    ELSE tally
    /\ UNCHANGED <<cb, now, calls>>
    /\ UNCHANGED unthreaded

\* lines 157-161: the lock is taken, current_state = self.state
RecordSuccess(t) ==
    /\ th[t].pc = "record_success"
    /\ lock[proc[t]] = 0
    /\ lock' = [lock EXCEPT ![proc[t]] = t]
    /\ \E fail \in Fails :
        LET current_state == IF fail THEN CLOSED ELSE cb.state
        IN  th' = [th EXCEPT ![t] = [th[t] EXCEPT
                        !.pc = IF current_state = HALF_OPEN
                               THEN "success_count_get"
                               ELSE "success_metrics_get",
                        !.cur = current_state]]
    /\ UNCHANGED <<cb, now, calls, tally>>
    /\ UNCHANGED unthreaded

\* line 163: success_count = self.success_count + 1
SuccessCountGet(t) ==
    /\ th[t].pc = "success_count_get"
    /\ \E fail \in Fails :
        IF fail
        THEN Return(t, th[t], "returned")
        ELSE Goto(t, [th[t] EXCEPT !.pc = "success_count_set",
                                   !.n = cb.success_count + 1])
    /\ UNCHANGED <<cb, now, calls, tally>>
    /\ UNCHANGED unthreaded

\* lines 164-168: cache.set(success_count_key, success_count)
SuccessCountSet(t) ==
    /\ th[t].pc = "success_count_set"
    /\ \E fail \in Fails :
        IF fail
        THEN /\ Return(t, th[t], "returned")
             /\ UNCHANGED cb
        ELSE /\ cb' = [cb EXCEPT !.success_count = th[t].n]
             /\ Goto(t, IF success_threshold_reached(th[t].n)
                        THEN enter_setter([th[t] EXCEPT !.wrote = TRUE, !.n = 0],
                                          CLOSED, "close_failure_count")
                        ELSE [th[t] EXCEPT !.pc = "success_metrics_get",
                                           !.wrote = TRUE, !.n = 0])
    /\ UNCHANGED <<now, calls, tally>>
    /\ UNCHANGED unthreaded

\* line 169: cache.set(failure_count_key, 0)
CloseFailureCount(t) ==
    /\ th[t].pc = "close_failure_count"
    /\ \E fail \in Fails :
        IF fail
        THEN /\ Return(t, th[t], "returned")
             /\ UNCHANGED cb
        ELSE /\ cb' = [cb EXCEPT !.failure_count = 0]
             /\ Goto(t, [th[t] EXCEPT !.pc = "close_success_count", !.wrote = TRUE])
    /\ UNCHANGED <<now, calls, tally>>
    /\ UNCHANGED unthreaded

\* line 170: cache.set(success_count_key, 0)
CloseSuccessCount(t) ==
    /\ th[t].pc = "close_success_count"
    /\ \E fail \in Fails :
        IF fail
        THEN /\ Return(t, th[t], "returned")
             /\ UNCHANGED cb
        ELSE /\ cb' = [cb EXCEPT !.success_count = 0]
             /\ Goto(t, [th[t] EXCEPT !.pc = "success_metrics_get", !.wrote = TRUE])
    /\ UNCHANGED <<now, calls, tally>>
    /\ UNCHANGED unthreaded

\* lines 220-229: metrics = cache.get(metrics_key), updated in the local copy
SuccessMetricsGet(t) ==
    /\ th[t].pc = "success_metrics_get"
    /\ \E fail \in Fails :
        IF fail
        THEN Return(t, th[t], "returned")
        ELSE Goto(t, [th[t] EXCEPT !.pc = "success_metrics_set",
                                   !.m = update_success_metrics(cb).metrics])
    /\ UNCHANGED <<cb, now, calls, tally>>
    /\ UNCHANGED unthreaded

\* faulty variant: the metrics of a success are not written back
SuccessMetricsSetSkipped(t) ==
    /\ th[t].pc = "success_metrics_set"
    /\ Return(t, th[t], "returned")
    /\ UNCHANGED <<cb, now, calls, tally>>
    /\ UNCHANGED unthreaded

\* line 231: cache.set(metrics_key, metrics); call() returns the result (287)
SuccessMetricsSet(t) ==
    /\ th[t].pc = "success_metrics_set"
    /\ \E fail \in Fails :
        IF fail
        THEN /\ Return(t, th[t], "returned")
             /\ UNCHANGED cb
        ELSE /\ cb' = [cb EXCEPT !.metrics = th[t].m]
             /\ Return(t, [th[t] EXCEPT !.wrote = TRUE, !.wrote_metrics = TRUE],
                       "returned")
    /\ UNCHANGED <<now, calls, tally>>
    /\ UNCHANGED unthreaded

\* faulty variant: _record_failure does not take the lock
RecordFailureUnlocked(t) ==
    /\ th[t].pc = "record_failure"
    /\ IF ~th[t].beh.expected
       THEN Return(t, th[t], "raised_op")
       ELSE /\ UNCHANGED lock
            /\ \E fail \in Fails :
                th' = [th EXCEPT ![t] = [th[t] EXCEPT
                            !.pc = "failure_count_get",
                            !.cur = IF fail THEN CLOSED ELSE cb.state]]
    /\ UNCHANGED <<cb, now, calls, tally>>
    /\ UNCHANGED unthreaded

\* lines 185-192: the lock is taken; an exception that is not an expected one
\* is not recorded; otherwise current_state = self.state
RecordFailure(t) ==
    /\ th[t].pc = "record_failure"
    /\ lock[proc[t]] = 0
    /\ IF ~th[t].beh.expected
       THEN Return(t, th[t], "raised_op")
       ELSE /\ lock' = [lock EXCEPT ![proc[t]] = t]
            /\ \E fail \in Fails :
                th' = [th EXCEPT ![t] = [th[t] EXCEPT
                            !.pc = "failure_count_get",
                            !.cur = IF fail THEN CLOSED ELSE cb.state]]
    /\ UNCHANGED <<cb, now, calls, tally>>
    /\ UNCHANGED unthreaded

\* line 193: failure_count = self.failure_count + 1
FailureCountGet(t) ==
    /\ th[t].pc = "failure_count_get"
    /\ \E fail \in Fails :
        IF fail
        THEN Return(t, th[t], "raised_op")
        ELSE Goto(t, [th[t] EXCEPT !.pc = "failure_count_set",
                                   !.n = cb.failure_count + 1])
    /\ UNCHANGED <<cb, now, calls, tally>>
    /\ UNCHANGED unthreaded

\* line 195: cache.set(failure_count_key, failure_count)
FailureCountSet(t) ==
    /\ th[t].pc = "failure_count_set"
    /\ \E fail \in Fails :
        IF fail
        THEN /\ Return(t, th[t], "raised_op")
             /\ UNCHANGED cb
        ELSE /\ cb' = [cb EXCEPT !.failure_count = th[t].n]
             /\ Goto(t, [th[t] EXCEPT !.pc = "last_failure_time_set", !.wrote = TRUE])
    /\ UNCHANGED <<now, calls, tally>>
    /\ UNCHANGED unthreaded

\* lines 196-207: cache.set(last_failure_time_key, time.time())
LastFailureTimeSet(t) ==
    /\ th[t].pc = "last_failure_time_set"
    /\ \E fail \in Fails :
        IF fail
        THEN /\ Return(t, th[t], "raised_op")
             /\ UNCHANGED cb
        ELSE /\ cb' = [cb EXCEPT !.last_failure_time = now]
             /\ Goto(t, IF \/ th[t].cur = CLOSED /\ failure_threshold_reached(th[t].n)
                           \/ th[t].cur = HALF_OPEN
                        THEN enter_setter([th[t] EXCEPT !.wrote = TRUE, !.n = 0],
                                          OPEN, "open_success_count")
                        ELSE [th[t] EXCEPT !.pc = "failure_metrics_get",
                                           !.wrote = TRUE, !.n = 0])
    /\ UNCHANGED <<now, calls, tally>>
    /\ UNCHANGED unthreaded

\* faulty variant: success_count is left as it is when the breaker opens
OpenSuccessCountKept(t) ==
    /\ th[t].pc = "open_success_count"
    /\ Goto(t, [th[t] EXCEPT !.pc = "failure_metrics_get"])
    /\ UNCHANGED <<cb, now, calls, tally>>
    /\ UNCHANGED unthreaded

\* faulty variant: failure_count is zeroed too when the breaker opens
OpenSuccessCountAndFailureCount(t) ==
    /\ th[t].pc = "open_success_count"
    /\ cb' = [cb EXCEPT !.success_count = 0, !.failure_count = 0]
    /\ Goto(t, [th[t] EXCEPT !.pc = "failure_metrics_get", !.wrote = TRUE])
    /\ UNCHANGED <<now, calls, tally>>
    /\ UNCHANGED unthreaded

\* lines 202 / 208: cache.set(success_count_key, 0)
OpenSuccessCount(t) ==
    /\ th[t].pc = "open_success_count"
    /\ \E fail \in Fails :
        IF fail
        THEN /\ Return(t, th[t], "raised_op")
             /\ UNCHANGED cb
        ELSE /\ cb' = [cb EXCEPT !.success_count = 0]
             /\ Goto(t, [th[t] EXCEPT !.pc = "failure_metrics_get", !.wrote = TRUE])
    /\ UNCHANGED <<now, calls, tally>>
    /\ UNCHANGED unthreaded

\* lines 238-244: metrics = cache.get(metrics_key), updated in the local copy
FailureMetricsGet(t) ==
    /\ th[t].pc = "failure_metrics_get"
    /\ \E fail \in Fails :
        IF fail
        THEN Return(t, th[t], "raised_op")
        ELSE Goto(t, [th[t] EXCEPT !.pc = "failure_metrics_set",
                                   !.m = update_failure_metrics(cb, th[t].beh).metrics])
    /\ UNCHANGED <<cb, now, calls, tally>>
    /\ UNCHANGED unthreaded

\* line 246: cache.set(metrics_key, metrics); call() re-raises (291)
FailureMetricsSet(t) ==
    /\ th[t].pc = "failure_metrics_set"
    /\ \E fail \in Fails :
        IF fail
        THEN /\ Return(t, th[t], "raised_op")
             /\ UNCHANGED cb
        ELSE /\ cb' = [cb EXCEPT !.metrics = th[t].m]
             /\ Return(t, [th[t] EXCEPT !.wrote = TRUE, !.wrote_metrics = TRUE],
                       "raised_op")
    /\ UNCHANGED <<now, calls, tally>>
    /\ UNCHANGED unthreaded

\* lines 334-336: reset() takes the lock and sets the state to CLOSED
ResetState(t) ==
    /\ proc[t] # 0
    /\ th[t].pc = "idle"
    /\ th[t].outcome = "none"
    /\ lock[proc[t]] = 0
    /\ lock' = [lock EXCEPT ![proc[t]] = t]
    /\ th' = [th EXCEPT ![t] = enter_setter(IdleThread, CLOSED, "reset_failure_count")]
    /\ calls' = calls + 1
    /\ UNCHANGED <<cb, now, tally>>
    /\ UNCHANGED unthreaded

\* line 337: cache.set(failure_count_key, 0)
ResetFailureCount(t) ==
    /\ th[t].pc = "reset_failure_count"
    /\ \E fail \in Fails :
        IF fail
        THEN /\ Return(t, th[t], "reset")
             /\ UNCHANGED cb
        ELSE /\ cb' = [cb EXCEPT !.failure_count = 0]
             /\ Goto(t, [th[t] EXCEPT !.pc = "reset_success_count", !.wrote = TRUE])
    /\ UNCHANGED <<now, calls, tally>>
    /\ UNCHANGED unthreaded

\* line 338: cache.set(success_count_key, 0)
ResetSuccessCount(t) ==
    /\ th[t].pc = "reset_success_count"
    /\ \E fail \in Fails :
        IF fail
        THEN /\ Return(t, th[t], "reset")
             /\ UNCHANGED cb
        ELSE /\ cb' = [cb EXCEPT !.success_count = 0]
             /\ Goto(t, [th[t] EXCEPT !.pc = "reset_last_failure_time", !.wrote = TRUE])
    /\ UNCHANGED <<now, calls, tally>>
    /\ UNCHANGED unthreaded

\* line 339: cache.set(last_failure_time_key, 0)
ResetLastFailureTime(t) ==
    /\ th[t].pc = "reset_last_failure_time"
    /\ \E fail \in Fails :
        IF fail
        THEN /\ Return(t, th[t], "reset")
             /\ UNCHANGED cb
        ELSE /\ cb' = [cb EXCEPT !.last_failure_time = 0]
             /\ Return(t, [th[t] EXCEPT !.wrote = TRUE], "reset")
    /\ UNCHANGED <<now, calls, tally>>
    /\ UNCHANGED unthreaded

ThreadTick ==
    /\ now < MaxThreadTime
    /\ now' = now + 1
    /\ UNCHANGED <<cb, calls, th, lock, tally>>
    /\ UNCHANGED unthreaded

ThreadNext ==
    \/ \E t \in Threads :
        \/ CallState(t)
        \/ CanAttemptResetState(t)
        \/ CanAttemptResetTime(t)
        \/ SetterOld(t)
        \/ SetterSet(t)
        \/ StateMetricsGet(t)
        \/ StateMetricsSet(t)
        \/ Func(t)
        \/ RecordSuccess(t)
        \/ SuccessCountGet(t)
        \/ SuccessCountSet(t)
        \/ CloseFailureCount(t)
        \/ CloseSuccessCount(t)
        \/ SuccessMetricsGet(t)
        \/ SuccessMetricsSet(t)
        \/ RecordFailure(t)
        \/ FailureCountGet(t)
        \/ FailureCountSet(t)
        \/ LastFailureTimeSet(t)
        \/ OpenSuccessCount(t)
        \/ FailureMetricsGet(t)
        \/ FailureMetricsSet(t)
        \/ ResetState(t)
        \/ ResetFailureCount(t)
        \/ ResetSuccessCount(t)
        \/ ResetLastFailureTime(t)
    \/ ThreadTick

\* The store when the threads start: as _initialize_state leaves it, or as
\* one earlier call (made at time 0) has left it; the breaker object of a
\* thread is constructed on either without changing it (lines 65-66).
EarlierStores ==
    {initialize_state}
        \cup {call(initialize_state, beh, 0, 0).store : beh \in Behaviours}

\* configurations of the threaded breaker: it opens on its first failure,
\* and recovery_timeout does not exceed the time the threads run for
ThreadConfigs ==
    [failure_threshold : {1}, recovery_timeout : {0, 1}, success_threshold : {1, 2}]

\* two threads of one process, or one thread in each of two processes
ThreadsInit ==
    /\ config \in ThreadConfigs
    /\ cb \in EarlierStores
    /\ now = 0
    /\ calls = 0
    /\ last = NoLast
    /\ streak = 0
    /\ limits = DefaultLimits
    /\ counters = EmptyCache
    /\ rl = NoRl
    /\ raised = {}
    /\ proc \in {[t \in Threads |-> 1], [t \in Threads |-> t]}
    /\ faults = FALSE
    /\ th = [t \in Threads |-> IdleThread]
    /\ lock = [p \in Processes |-> 0]
    /\ tally = [successes |-> cb.metrics.total_successes,
                failures |-> cb.metrics.total_failures]
    /\ NoService

SpecThreads == ThreadsInit /\ [][ThreadNext]_vars

\* one thread over a store whose accesses may raise
StoreErrorsInit ==
    /\ config \in ThreadConfigs
    /\ cb \in EarlierStores
    /\ now = 0
    /\ calls = 0
    /\ last = NoLast
    /\ streak = 0
    /\ limits = DefaultLimits
    /\ counters = EmptyCache
    /\ rl = NoRl
    /\ raised = {}
    /\ proc = [t \in Threads |-> IF t = 1 THEN 1 ELSE 0]
    /\ faults = TRUE
    /\ th = [t \in Threads |-> IdleThread]
    /\ lock = [p \in Processes |-> 0]
    /\ tally = [successes |-> cb.metrics.total_successes,
                failures |-> cb.metrics.total_failures]
    /\ NoService

SpecBreakerStoreErrors == StoreErrorsInit /\ [][ThreadNext]_vars

(***************************************************************************)
(* Properties of call() step by step                                       *)
(***************************************************************************)
\* C15: whatever store reads and writes raise during call(), the caller does
\* not observe a store error: call() returns the operation's result, or
\* raises the operation's own failure or CircuitBreakerError.
C15_CallerSeesNoStoreError ==
    \A t \in Threads :
        th[t].outcome \in {"none", "reset", "returned", "raised_op", "raised_cbe"}

SameProcess == \A t, u \in Threads : proc[t] = proc[u]
AllReturned == \A t \in Threads : th[t].pc = "idle"
InBookkeeping(t) ==
    th[t].pc \notin {"idle", "can_attempt_reset_state", "can_attempt_reset_time",
                     "func", "record_success", "record_failure"}
        /\ ~(th[t].ret = "func"
              /\ th[t].pc \in {"setter_old", "setter_set",
                                "state_metrics_get", "state_metrics_set"})

\* C16: for threads of one process no bookkeeping update is lost: once all
\* calls have completed, the metrics totals account for every outcome that
\* was recorded (every operation that returned, every expected failure).
C16_NoLostBookkeeping ==
    (SameProcess /\ AllReturned) =>
        /\ cb.metrics.total_successes = tally.successes
        /\ cb.metrics.total_failures = tally.failures
        /\ cb.metrics.total_requests = tally.successes + tally.failures

\* C17: in every interleaving, each write that changes the persisted state
\* from OPEN to HALF_OPEN happens when now - last_failure_time >=
\* recovery_timeout holds for the last_failure_time persisted at that moment.
C17_Step ==
    (cb.state = OPEN /\ cb'.state = HALF_OPEN) =>
        now - cb.last_failure_time >= config.recovery_timeout
C17_ProbeOnlyWhenEligible == [][C17_Step]_vars

NoBookkeeping == \A t \in Threads : ~InBookkeeping(t)

\* C18 (as stated): for callers in one or several processes, in every state
\* in which no caller is part-way through bookkeeping, state # HALF_OPEN
\* implies success_count = 0.
C18_AnyDeployment ==
    (NoBookkeeping /\ cb.state # HALF_OPEN) => cb.success_count = 0

\* C18 (amended): for callers that are threads of one process, in every state
\* in which no caller is part-way through bookkeeping, state # HALF_OPEN
\* implies success_count = 0.
C18_SuccessCountZeroed ==
    (SameProcess /\ NoBookkeeping /\ cb.state # HALF_OPEN) => cb.success_count = 0
C18_Witness ==
    /\ SameProcess
    /\ AllReturned
    /\ config.success_threshold = 2
    /\ cb.state = OPEN
    /\ cb.success_count = 0
    /\ th[1].outcome = "returned" /\ th[1].cur = HALF_OPEN
    /\ th[2].outcome = "raised_op" /\ th[2].cur = HALF_OPEN
    /\ cb.metrics.total_successes = 1

\* C19: for threads of one process, failure_count never decreases except
\* when it is set to 0 on entering CLOSED: by the bookkeeping of a success
\* that takes the breaker from HALF_OPEN to CLOSED, or by reset().  No other
\* step, in particular none of CLOSED to OPEN, OPEN to HALF_OPEN and
\* HALF_OPEN to OPEN, lowers it.
C19_Step ==
    (SameProcess /\ cb'.failure_count < cb.failure_count) =>
        /\ cb'.failure_count = 0
        /\ \E t \in Threads :
            /\ th'[t] # th[t]
            /\ \/ th[t].pc = "close_failure_count" /\ th[t].cur = HALF_OPEN
               \/ th[t].pc = "reset_failure_count"
C19_FailureCountMonotone == [][C19_Step]_vars
C19_Witness ==
    /\ SameProcess
    /\ \E t \in Threads : th[t].pc = "close_success_count"
    /\ cb.state = CLOSED
    /\ cb.failure_count = 0
    /\ cb.metrics.total_failures >= 1
    /\ cb.metrics.total_circuit_closes = 1

\* C20 (as stated): every call(), whatever its outcome, performs at least
\* one write to the store.
C20_EveryCallWrites ==
    \A t \in Threads :
        th[t].outcome \in {"returned", "raised_op", "raised_cbe"} => th[t].wrote

\* C20 (amended): every call() whose operation returned, or raised a failure
\* of an expected kind, performs at least one write to the store, a metrics
\* write among them.
C20_RecordedCallWrites ==
    \A t \in Threads :
        (\/ th[t].outcome = "returned"
         \/ th[t].outcome = "raised_op" /\ th[t].beh.expected)
            => (th[t].wrote /\ th[t].wrote_metrics)
C20_Witness ==
    /\ th[1].outcome = "returned" /\ th[1].wrote_metrics
    /\ th[2].outcome = "raised_cbe" /\ ~th[2].wrote

(***************************************************************************)
(* Frame conditions of call()                                              *)
(***************************************************************************)
\* C21: a call() rejected with CircuitBreakerError writes nothing: state,
\* failure_count, success_count, last_failure_time and the metrics aggregate
\* (total_requests included) are the same after it as before it.
C21_Step ==
    (IsCall /\ last'.outcome = "raised_cbe") =>
        /\ cb'.state = cb.state
        /\ cb'.failure_count = cb.failure_count
        /\ cb'.success_count = cb.success_count
        /\ cb'.last_failure_time = cb.last_failure_time
        /\ cb'.metrics = cb.metrics
C21_RejectionWritesNothing == [][C21_Step]_vars
C21_Witness ==
    /\ last.op = "call" /\ last.outcome = "raised_cbe"
    /\ last.prev_op = "call"
    /\ cb.state = OPEN
    /\ cb.metrics.total_requests = calls - 1

\* C30: a successful call while CLOSED leaves state, failure_count,
\* success_count and last_failure_time unchanged and adds one request and one
\* success to the metrics; an expected failure while CLOSED adds one to
\* failure_count and opens the circuit exactly when the sum reaches
\* failure_threshold.  failure_count therefore accumulates across successes,
\* and failure_threshold expected failures open the circuit even when
\* successful calls occur between them.
C30_Step ==
    /\ (IsCall /\ cb.state = CLOSED /\ last'.outcome = "returned") =>
            /\ cb'.state = CLOSED
            /\ cb'.failure_count = cb.failure_count
            /\ cb'.success_count = cb.success_count
            /\ cb'.last_failure_time = cb.last_failure_time
            /\ cb'.metrics = [cb.metrics EXCEPT !.total_requests = @ + 1,
                                                !.total_successes = @ + 1]
    /\ (IsCall /\ cb.state = CLOSED /\ ExpectedFailure(last'.beh)) =>
            /\ cb'.failure_count = cb.failure_count + 1
            /\ cb'.state = OPEN <=> cb.failure_count + 1 >= config.failure_threshold
            /\ cb'.state \in {CLOSED, OPEN}
C30_NoDecayWhileClosed == [][C30_Step]_vars
C30_Witness ==
    /\ config.failure_threshold = 2
    /\ calls = 3
    /\ last.op = "call" /\ ExpectedFailure(last.beh)
    /\ streak = -1
    /\ cb.state = OPEN
    /\ cb.failure_count = 2
    /\ cb.metrics.total_successes = 1
    /\ cb.metrics.total_failures = 2

\* width of the window a denial names
WindowWidth(window) ==
    IF window = "minute" THEN 60
    ELSE IF window = "daily" THEN 86400
    ELSE 10

\* C28: every denial reports reset_in = width - (t mod width) for the window
\* that denied (60 for minute, 86400 for day, 10 for burst), t the time of the
\* check; so 1 <= reset_in <= width, and reset_in = width on a bucket boundary.
C28_Step ==
    (IsCheck /\ ~rl'.decision.allowed) =>
        LET d == rl'.decision
            width == WindowWidth(d.window)
        IN  /\ d.window \in {"minute", "daily", "burst"}
            /\ d.reset_in = width - (now % width)
            /\ 1 <= d.reset_in /\ d.reset_in <= width
            /\ (now % width = 0) => d.reset_in = width
C28_ResetIn == [][C28_Step]_vars
C28_Witness ==
    /\ now = 60
    /\ ~rl.decision.allowed
    /\ rl.decision.window = "minute"
    /\ rl.decision.limit >= 1
    /\ rl.decision.reset_in = 60

(***************************************************************************)
(* check_rate_limit run by concurrent callers, one action per store        *)
(* access.  Each limiter thread performs one check; the limiter takes no   *)
(* lock.  current_time is read once (line 53) and names the buckets; a     *)
(* TTL runs from the moment of the cache.set.  Of a thread's locals only    *)
(* those still to be read are kept.                                        *)
(***************************************************************************)
ThreadTimePoints == {0, 20}
\* the identities the concurrent callers check for
ThreadUsers == {NoUser, "u1"}

\* everything a step of check_rate_limit leaves alone
unlimited == <<config, cb, calls, last, streak, limits, rl, raised,
               threadvars, query, breakers, stored, manager_lock, mth, delete_pattern,
               categories, prediction>>

LimiterGoto(t, r) == lth' = [lth EXCEPT ![t] = r]

\* lines 43-53: the pass-through return, or current_time = int(time.time())
CheckStart(t) ==
    \E service \in Services, user_id \in ThreadUsers :
        /\ lth[t].pc = "idle" /\ ~lth[t].done
        /\ IF rate_limiting_bypassed(dict_get(limits, service, EmptyDict))
           THEN LimiterGoto(t, [IdleLimiterThread EXCEPT !.done = TRUE])
           ELSE LimiterGoto(t, [lth[t] EXCEPT !.pc = "minute_check",
                                              !.service = service,
                                              !.user_id = user_id,
                                              !.current_time = now])
        /\ UNCHANGED <<counters, now>>
        /\ UNCHANGED unlimited

\* line 98: current_count = cache.get(minute_key, 0)
MinuteCheckGet(t) ==
    /\ lth[t].pc = "minute_check"
    /\ LimiterGoto(t, [lth[t] EXCEPT !.pc = "day_check",
            !.minute = cache_get(counters,
                                 minute_key(lth[t].service, lth[t].current_time),
                                 0, now)])
    /\ UNCHANGED <<counters, now>>
    /\ UNCHANGED unlimited

\* line 116: current_count = cache.get(day_key, 0)
DayCheckGet(t) ==
    /\ lth[t].pc = "day_check"
    /\ LimiterGoto(t, [lth[t] EXCEPT !.pc = "burst_check",
            !.day = cache_get(counters,
                              day_key(lth[t].service, lth[t].current_time),
                              0, now)])
    /\ UNCHANGED <<counters, now>>
    /\ UNCHANGED unlimited

\* line 138: current_count = cache.get(burst_key, 0); lines 63-69: the first
\* failing check is returned, otherwise _record_request starts (line 72)
BurstCheckGet(t) ==
    LET r == lth[t]
        lim == limits[r.service]
        burst == cache_get(counters, burst_key(r.service, r.current_time, r.user_id),
                           0, now)
        denied == \/ minute_limit_reached(r.minute, dict_get(lim, "requests_per_minute", 0))
                  \/ r.day >= dict_get(lim, "requests_per_day", 0)
                  \/ burst >= dict_get(lim, "burst_limit", 0)
    IN  /\ r.pc = "burst_check"
        /\ IF denied
           THEN LimiterGoto(t, [IdleLimiterThread EXCEPT !.done = TRUE])
           ELSE LimiterGoto(t, [r EXCEPT !.pc = "record_minute_get",
                                         !.minute = 0, !.day = 0])
        /\ UNCHANGED <<counters, now>>
        /\ UNCHANGED unlimited

\* line 159: current_minute = cache.get(minute_key, 0)
RecordMinuteGet(t) ==
    /\ lth[t].pc = "record_minute_get"
    /\ LimiterGoto(t, [lth[t] EXCEPT !.pc = "record_minute_set",
            !.n = cache_get(counters,
                            minute_key(lth[t].service, lth[t].current_time), 0, now)])
    /\ UNCHANGED <<counters, now>>
    /\ UNCHANGED unlimited

\* line 160: cache.set(minute_key, current_minute + 1, 120)
RecordMinuteSet(t) ==
    /\ lth[t].pc = "record_minute_set"
    /\ counters' = cache_set(counters, minute_key(lth[t].service, lth[t].current_time),
                             lth[t].n + 1, MinuteTTL, now)
    /\ LimiterGoto(t, [lth[t] EXCEPT !.pc = "record_day_get", !.n = 0])
    /\ UNCHANGED now
    /\ UNCHANGED unlimited

\* line 164: current_day = cache.get(day_key, 0)
RecordDayGet(t) ==
    /\ lth[t].pc = "record_day_get"
    /\ LimiterGoto(t, [lth[t] EXCEPT !.pc = "record_day_set",
            !.n = cache_get(counters,
                            day_key(lth[t].service, lth[t].current_time), 0, now)])
    /\ UNCHANGED <<counters, now>>
    /\ UNCHANGED unlimited

\* line 165: cache.set(day_key, current_day + 1, 90000)
RecordDaySet(t) ==
    /\ lth[t].pc = "record_day_set"
    /\ counters' = cache_set(counters, day_key(lth[t].service, lth[t].current_time),
                             lth[t].n + 1, DayTTL, now)
    /\ LimiterGoto(t, [lth[t] EXCEPT !.pc = "record_burst_get", !.n = 0])
    /\ UNCHANGED now
    /\ UNCHANGED unlimited

\* line 171: current_burst = cache.get(burst_key, 0)
RecordBurstGet(t) ==
    /\ lth[t].pc = "record_burst_get"
    /\ LimiterGoto(t, [lth[t] EXCEPT !.pc = "record_burst_set",
            !.n = cache_get(counters,
                            burst_key(lth[t].service, lth[t].current_time,
                                      lth[t].user_id), 0, now)])
    /\ UNCHANGED <<counters, now>>
    /\ UNCHANGED unlimited

\* line 172: cache.set(burst_key, current_burst + 1, 20)
RecordBurstSet(t) ==
    /\ lth[t].pc = "record_burst_set"
    /\ counters' = cache_set(counters,
                             burst_key(lth[t].service, lth[t].current_time,
                                       lth[t].user_id),
                             lth[t].n + 1, BurstTTL, now)
    /\ LimiterGoto(t, [lth[t] EXCEPT !.pc = "remaining_minute", !.n = 0])
    /\ UNCHANGED now
    /\ UNCHANGED unlimited

\* line 77: _get_remaining_requests(service, current_time, 'minute') (line 196)
RemainingMinuteGet(t) ==
    /\ lth[t].pc = "remaining_minute"
    /\ LimiterGoto(t, [lth[t] EXCEPT !.pc = "remaining_daily"])
    /\ UNCHANGED <<counters, now>>
    /\ UNCHANGED unlimited

\* line 78: _get_remaining_requests(service, current_time, 'daily'); return
RemainingDailyGet(t) ==
    /\ lth[t].pc = "remaining_daily"
    /\ LimiterGoto(t, [IdleLimiterThread EXCEPT
                        !.done = TRUE, !.admitted = TRUE,
                        !.service = lth[t].service,
                        !.bucket = lth[t].current_time \div MinuteWindow])
    /\ UNCHANGED <<counters, now>>
    /\ UNCHANGED unlimited

\* the clock moves on; entries whose TTL has run out are gone
LimiterThreadTick ==
    \E t \in ThreadTimePoints :
        /\ t > now
        /\ now' = t
        /\ counters' = cache_expire(counters, t)
        /\ UNCHANGED lth
        /\ UNCHANGED unlimited

LimiterThreadNext ==
    \/ \E t \in LimiterThreads :
        \/ CheckStart(t)
        \/ MinuteCheckGet(t)
        \/ DayCheckGet(t)
        \/ BurstCheckGet(t)
        \/ RecordMinuteGet(t)
        \/ RecordMinuteSet(t)
        \/ RecordDayGet(t)
        \/ RecordDaySet(t)
        \/ RecordBurstGet(t)
        \/ RecordBurstSet(t)
        \/ RemainingMinuteGet(t)
        \/ RemainingDailyGet(t)
    \/ LimiterThreadTick

LimiterThreadsInit ==
    /\ config = CHOOSE cfg \in CircuitBreakerConfig : TRUE
    /\ cb = initialize_state
    /\ now = 0
    /\ calls = 0
    /\ last = NoLast
    /\ streak = 0
    /\ limits = DefaultLimits
    /\ counters = EmptyCache
    /\ rl = NoRl
    /\ raised = {}
    /\ NoThreads

SpecLimiterThreads == LimiterThreadsInit /\ [][LimiterThreadNext]_vars

\* C25: in the absence of reset_limits, the stored value of a minute, day or
\* burst counter never decreases while its entry lives, whatever the
\* interleaving of concurrent check_rate_limit callers.
C25_Step ==
    \A k \in DOMAIN counters \cap DOMAIN counters' :
        counters'[k].value >= counters[k].value
C25_CountersNeverDecrease == [][C25_Step]_vars

(***************************************************************************)
(* get_usage_stats and reset_limits.  Each returns the store it leaves     *)
(* behind next to its result.                                              *)
(***************************************************************************)
\* faulty variant: the query is recorded as a request
get_usage_stats_records(c, service, current_time) ==
    [result |-> [service |-> service, enabled |-> FALSE,
                 current_minute |-> 0, limit_minute |-> 0, remaining_minute |-> 0,
                 current_daily |-> 0, limit_daily |-> 0, remaining_daily |-> 0,
                 timestamp |-> current_time],
     store |-> record_request(c, service, current_time, NoUser)]

get_usage_stats(c, service, current_time) ==
    LET service_limits == dict_get(limits, service, EmptyDict)
        minute_count == cache_get(c, minute_key(service, current_time), 0, current_time)
        day_count == cache_get(c, day_key(service, current_time), 0, current_time)
    IN  [result |->
            [service |-> service,
             enabled |-> dict_get(service_limits, "enabled", FALSE),
             current_minute |-> minute_count,
             limit_minute |-> dict_get(service_limits, "requests_per_minute", 0),
             remaining_minute |->
                 max0(dict_get(service_limits, "requests_per_minute", 0) - minute_count),
             current_daily |-> day_count,
             limit_daily |-> dict_get(service_limits, "requests_per_day", 0),
             remaining_daily |->
                 max0(dict_get(service_limits, "requests_per_day", 0) - day_count),
             timestamp |-> current_time],
         store |-> c]

\* cache.delete(key)
cache_delete(c, key) == [k \in DOMAIN c \ {key} |-> c[k]]

\* cache.delete_pattern(f"rate_limit:{service}:burst:*")
cache_delete_pattern(c, service) ==
    [k \in {x \in DOMAIN c : ~(x.service = service /\ x.window = "burst")} |-> c[k]]

\* faulty variant: the day counter is not deleted
reset_limits_keeps_day(c, service, current_time, has_delete_pattern) ==
    LET c1 == cache_delete(c, minute_key(service, current_time))
    IN  [store |-> IF has_delete_pattern THEN cache_delete_pattern(c1, service) ELSE c1,
         raised |-> FALSE]

\* lines 231-251; without delete_pattern the AttributeError is caught at 245
reset_limits(c, service, current_time, has_delete_pattern) ==
    LET c1 == cache_delete(c, minute_key(service, current_time))
        c2 == cache_delete(c1, day_key(service, current_time))
    IN  [store |-> IF has_delete_pattern THEN cache_delete_pattern(c2, service) ELSE c2,
         raised |-> FALSE]

MaxAdminOps == 3

\* a request for the rate-limited service, by a caller of the admin operations
AdminCheck == CheckFor({"gemini_api"}, ThreadUsers, MaxAdminOps)

\* everything the limiter's operations leave alone besides query
unqueried == <<threadvars, lth, breakers, stored, manager_lock, mth, delete_pattern,
               categories, prediction>>

GetUsageStats ==
    \E service \in Services :
        LET r == get_usage_stats(counters, service, now)
        IN  /\ calls < MaxAdminOps
            /\ calls' = calls + 1
            /\ counters' = r.store
            /\ query' = [op |-> "get_usage_stats", service |-> service,
                         result |-> r.result]
            /\ UNCHANGED <<config, cb, now, last, streak, limits, rl, raised>>
            /\ UNCHANGED unqueried

ResetLimits ==
    \E service \in Services :
        LET r == reset_limits(counters, service, now, delete_pattern)
        IN  /\ calls < MaxAdminOps
            /\ calls' = calls + 1
            /\ counters' = r.store
            /\ query' = [op |-> "reset_limits", service |-> service,
                         result |-> [raised |-> r.raised]]
            /\ UNCHANGED <<config, cb, now, last, streak, limits, rl, raised>>
            /\ UNCHANGED unqueried

\* self.limits of the limiter that is queried and reset
AdminLimits ==
    { [gemini_api |-> [requests_per_minute |-> 2, requests_per_day |-> rpd,
                       burst_limit |-> 2, enabled |-> TRUE],
       tesseract  |-> [enabled |-> FALSE]] : rpd \in {1, 2} }

LimiterAdminNext == AdminCheck \/ LimiterTick \/ GetUsageStats \/ ResetLimits

LimiterAdminInit ==
    /\ config = CHOOSE cfg \in CircuitBreakerConfig : TRUE
    /\ cb = initialize_state
    /\ now = 0
    /\ calls = 0
    /\ last = NoLast
    /\ streak = 0
    /\ limits \in AdminLimits
    /\ counters = EmptyCache
    /\ rl = NoRl
    /\ raised = {}
    /\ proc = [t \in Threads |-> 0]
    /\ faults = FALSE
    /\ th = [t \in Threads |-> IdleThread]
    /\ lock = [p \in Processes |-> 0]
    /\ tally = [successes |-> 0, failures |-> 0]
    /\ lth = [t \in LimiterThreads |-> IdleLimiterThread]
    /\ query = NoQuery
    /\ breakers = [p \in Processes |-> [nm \in Names |-> NoBreaker]]
    /\ stored = [nm \in KeyNames |-> NoStore]
    /\ manager_lock = [p \in Processes |-> 0]
    /\ mth = [t \in Threads |-> IdleManagerThread]
    /\ delete_pattern \in BOOLEAN
    /\ categories = "none"
    /\ prediction = NoPrediction

SpecLimiterAdmin == LimiterAdminInit /\ [][LimiterAdminNext]_vars

\* a step of get_usage_stats / reset_limits: an operation that is not a check
IsAdmin == calls' = calls + 1 /\ rl'.seq = rl.seq
IsUsageStats == IsAdmin /\ query'.op = "get_usage_stats"
IsResetLimits == IsAdmin /\ query'.op = "reset_limits"

\* C26: reset_limits(service) deletes the current minute and day counters of
\* that service, so that a following check reads both counts as 0, and leaves
\* the counters of other services unchanged; when the store has no
\* delete_pattern, the burst counters are unchanged and reset_limits returns
\* without raising.
C26_Step ==
    IsResetLimits =>
        LET service == query'.service
            lim == dict_get(limits, service, EmptyDict)
            following == check_rate_limit(counters', service, NoUser, now)
        IN  /\ minute_key(service, now) \notin DOMAIN counters'
            /\ day_key(service, now) \notin DOMAIN counters'
            /\ cache_get(counters', minute_key(service, now), 0, now) = 0
            /\ cache_get(counters', day_key(service, now), 0, now) = 0
            /\ (/\ dict_get(lim, "requests_per_minute", 0) >= 1
                /\ dict_get(lim, "requests_per_day", 0) >= 1)
                    => following.decision.reason \notin
                           {"minute_limit_exceeded", "daily_limit_exceeded"}
            /\ \A k \in DOMAIN counters :
                   k.service # service =>
                       k \in DOMAIN counters' /\ counters'[k] = counters[k]
            /\ ~delete_pattern =>
                   \A k \in DOMAIN counters :
                       k.window = "burst" =>
                           k \in DOMAIN counters' /\ counters'[k] = counters[k]
            /\ ~query'.result.raised
C26_ResetLimits == [][C26_Step]_vars
C26_Witness ==
    /\ query.op = "reset_limits"
    /\ query.service = "gemini_api"
    /\ ~delete_pattern
    /\ rl.decision.allowed /\ rl.service = "gemini_api"
    /\ minute_key("gemini_api", now) \notin DOMAIN counters
    /\ day_key("gemini_api", now) \notin DOMAIN counters
    /\ \E k \in DOMAIN counters :
           /\ k.window = "burst" /\ k.bucket = now \div burst_window
           /\ counters[k].value >= 1

\* C27: get_usage_stats(service) writes nothing to the store and returns, for
\* the current minute and day buckets, current = the stored count (0 if
\* absent), limit = the configured cap and remaining = max(0, limit - current);
\* a check_rate_limit made after it decides as it would have without it.
C27_Step ==
    IsUsageStats =>
        LET service == query'.service
            u == query'.result
            lim == dict_get(limits, service, EmptyDict)
            minute_count == IF minute_key(service, now) \in DOMAIN counters
                            THEN counters[minute_key(service, now)].value ELSE 0
            day_count == IF day_key(service, now) \in DOMAIN counters
                         THEN counters[day_key(service, now)].value ELSE 0
            rpm == IF "requests_per_minute" \in DOMAIN lim
                   THEN lim.requests_per_minute ELSE 0
            rpd == IF "requests_per_day" \in DOMAIN lim
                   THEN lim.requests_per_day ELSE 0
        IN  /\ counters' = counters
            /\ u.current_minute = minute_count
            /\ u.limit_minute = rpm
            /\ u.remaining_minute = (IF rpm - minute_count > 0 THEN rpm - minute_count ELSE 0)
            /\ u.current_daily = day_count
            /\ u.limit_daily = rpd
            /\ u.remaining_daily = (IF rpd - day_count > 0 THEN rpd - day_count ELSE 0)
            /\ \A s \in Services, user_id \in Users :
                   check_rate_limit(counters', s, user_id, now)
                       = check_rate_limit(counters, s, user_id, now)
C27_UsageStatsReadOnly == [][C27_Step]_vars
C27_Witness ==
    /\ query.op = "get_usage_stats"
    /\ query.service = "gemini_api"
    /\ query.result.current_minute = 1
    /\ query.result.limit_minute = 2
    /\ query.result.remaining_minute = 1
    /\ query.result.current_daily = 1
    /\ query.result.limit_daily = 1
    /\ query.result.remaining_daily = 0
    /\ cache_get(counters, minute_key("gemini_api", now), 0, now) = 1

(***************************************************************************)
(* get_metrics(): the snapshot and the store it leaves behind              *)
(***************************************************************************)
\* faulty variant: the query moves an eligible OPEN breaker to HALF_OPEN
get_metrics_probes(s, t) ==
    [result |-> [metrics |-> s.metrics,
                 current_state |-> s.state,
                 failure_count |-> s.failure_count,
                 success_count |-> s.success_count,
                 last_failure_time |-> s.last_failure_time,
                 is_healthy |-> s.state = CLOSED,
                 can_attempt_reset |-> can_attempt_reset(s, t),
                 time_until_retry |->
                     max0(config.recovery_timeout - (t - s.last_failure_time))],
     store |-> IF can_attempt_reset(s, t) THEN state_setter(s, HALF_OPEN, t) ELSE s]

\* lines 300-330
get_metrics(s, t) ==
    [result |-> [metrics |-> s.metrics,
                 current_state |-> s.state,
                 failure_count |-> s.failure_count,
                 success_count |-> s.success_count,
                 last_failure_time |-> s.last_failure_time,
                 is_healthy |-> s.state = CLOSED,
                 can_attempt_reset |-> can_attempt_reset(s, t),
                 time_until_retry |->
                     max0(config.recovery_timeout - (t - s.last_failure_time))],
     store |-> s]

GetMetrics ==
    LET r == get_metrics(cb, now)
    IN  /\ calls < MaxCalls
        /\ calls' = calls + 1
        /\ cb' = r.store
        /\ last' = [NoLast EXCEPT !.op = "get_metrics", !.prev_op = last.op]
        /\ query' = [op |-> "get_metrics", service |-> "", result |-> r.result]
        /\ UNCHANGED <<config, now, streak, limits, counters, rl, raised>>
        /\ UNCHANGED unqueried

BreakerQueriesNext == Call \/ Reset \/ Tick \/ GetMetrics

BreakerQueriesInit ==
    /\ config \in ThreadConfigs
    /\ cb = initialize_state
    /\ now = 0
    /\ calls = 0
    /\ last = NoLast
    /\ streak = 0
    /\ limits = DefaultLimits
    /\ counters = EmptyCache
    /\ rl = NoRl
    /\ raised = {}
    /\ NoThreads

SpecBreakerQueries == BreakerQueriesInit /\ [][BreakerQueriesNext]_vars

IsGetMetrics == calls' = calls + 1 /\ last'.op = "get_metrics"

\* C22: get_metrics() writes nothing to the store (an OPEN breaker eligible
\* for probing stays OPEN), and in its snapshot is_healthy is true exactly
\* when state = CLOSED and can_attempt_reset is true exactly when state = OPEN
\* and now - last_failure_time >= recovery_timeout.
C22_Step ==
    IsGetMetrics =>
        LET snapshot == query'.result
        IN  /\ cb' = cb
            /\ snapshot.is_healthy <=> cb.state = CLOSED
            /\ snapshot.can_attempt_reset <=>
                   (/\ cb.state = OPEN
                    /\ now - cb.last_failure_time >= config.recovery_timeout)
            /\ snapshot.current_state = cb.state
C22_GetMetricsReadOnly == [][C22_Step]_vars
C22_Witness ==
    /\ last.op = "get_metrics"
    /\ query.op = "get_metrics"
    /\ query.result.can_attempt_reset
    /\ ~query.result.is_healthy
    /\ cb.state = OPEN
    /\ config.recovery_timeout >= 1
    /\ now - cb.last_failure_time >= config.recovery_timeout

(***************************************************************************)
(* CircuitBreakerManager.get_breaker run by concurrent callers.  Each      *)
(* process has its own manager (the module-level circuit_breaker_manager)  *)
(* and all share the store.  A thread asks for one breaker and then makes  *)
(* one call() through it; call() is taken as one step here.                *)
(***************************************************************************)
\* CircuitBreakerConfig(name=name): the dataclass defaults
DefaultConfig ==
    [failure_threshold |-> 5, recovery_timeout |-> 60, success_threshold |-> 3]

\* the config argument of get_breaker: None or a configuration
ManagerConfigs == {NoConfig} \cup ThreadConfigs

\* the name field of the config the breaker is built from: name for
\* config = None (line 362), and for a config of the caller either name, as
\* circuit_breaker(name, ...) sets it, or the dataclass default
ConfigNames(name, cfg) ==
    IF cfg = NoConfig THEN {name} ELSE {name, DefaultName}

\* everything a step of get_breaker leaves alone
unmanaged == <<config, cb, calls, last, streak, limits, counters, rl, raised,
               proc, faults, th, lock, tally, lth, query, delete_pattern,
               categories, prediction>>

ManagerGoto(t, r) == mth' = [mth EXCEPT ![t] = r]

\* faulty variant: get_breaker does not wait for the manager's lock
GetBreakerUnlocked(t) ==
    \E name \in Names, cfg \in ManagerConfigs, cname \in KeyNames :
        /\ proc[t] # 0
        /\ cname \in ConfigNames(name, cfg)
        /\ mth[t].pc = "idle" /\ mth[t].got = NoBreaker
        /\ manager_lock' = [manager_lock EXCEPT ![proc[t]] = t]
        /\ ManagerGoto(t, [mth[t] EXCEPT !.pc = "check", !.name = name,
                                         !.config = cfg,
                                         !.config_name = cname,
                                         !.existed = stored[cname] # NoStore])
        /\ UNCHANGED <<breakers, stored, now>>
        /\ UNCHANGED unmanaged

\* line 358: with self._lock
GetBreaker(t) ==
    \E name \in Names, cfg \in ManagerConfigs, cname \in KeyNames :
        /\ proc[t] # 0
        /\ cname \in ConfigNames(name, cfg)
        /\ mth[t].pc = "idle" /\ mth[t].got = NoBreaker
        /\ manager_lock[proc[t]] = 0
        /\ manager_lock' = [manager_lock EXCEPT ![proc[t]] = t]
        /\ ManagerGoto(t, [mth[t] EXCEPT !.pc = "check", !.name = name,
                                         !.config = cfg,
                                         !.config_name = cname,
                                         !.existed = stored[cname] # NoStore])
        /\ UNCHANGED <<breakers, stored, now>>
        /\ UNCHANGED unmanaged

\* lines 359-362: if name not in self._breakers; the default config
CheckRegistered(t) ==
    LET r == mth[t]
        entry == breakers[proc[t]][r.name]
    IN  /\ r.pc = "check"
        /\ IF entry.serial = 0
           THEN ManagerGoto(t, [r EXCEPT !.pc = "construct",
                    !.instance = [serial |-> entry.built + 1,
                                  config |-> IF r.config = NoConfig
                                             THEN DefaultConfig ELSE r.config,
                                  key |-> r.config_name,
                                  built |-> 0]])
           ELSE ManagerGoto(t, [r EXCEPT !.pc = "return"])
        /\ UNCHANGED <<breakers, stored, manager_lock, now>>
        /\ UNCHANGED unmanaged

\* faulty variant: the state is initialized whether or not it is in the store
InitializeStateGetIgnored(t) ==
    /\ mth[t].pc = "construct"
    /\ ManagerGoto(t, [mth[t] EXCEPT !.pc = "initialize"])
    /\ UNCHANGED <<breakers, stored, manager_lock, now>>
    /\ UNCHANGED unmanaged

\* line 364: CircuitBreaker(config); line 66: cache.get(state_key) is None
InitializeStateGet(t) ==
    /\ mth[t].pc = "construct"
    /\ IF stored[mth[t].instance.key].state = "absent"
       THEN ManagerGoto(t, [mth[t] EXCEPT !.pc = "initialize"])
       ELSE ManagerGoto(t, [mth[t] EXCEPT !.pc = "register"])
    /\ UNCHANGED <<breakers, stored, manager_lock, now>>
    /\ UNCHANGED unmanaged

\* lines 67-71: the four cache.set and _initialize_metrics
InitializeStateSet(t) ==
    /\ mth[t].pc = "initialize"
    /\ stored' = [stored EXCEPT ![mth[t].instance.key] = initialize_state]
    /\ ManagerGoto(t, [mth[t] EXCEPT !.pc = "register"])
    /\ UNCHANGED <<breakers, manager_lock, now>>
    /\ UNCHANGED unmanaged

\* line 364: self._breakers[name] = the new object
Register(t) ==
    LET r == mth[t]
        entry == breakers[proc[t]][r.name]
    IN  /\ r.pc = "register"
        /\ breakers' = [breakers EXCEPT ![proc[t]][r.name] =
                            [r.instance EXCEPT !.built = entry.built + 1]]
        /\ ManagerGoto(t, [r EXCEPT !.pc = "return", !.instance = NoBreaker])
        /\ UNCHANGED <<stored, manager_lock, now>>
        /\ UNCHANGED unmanaged

\* line 367: return self._breakers[name]; the lock is released
ReturnBreaker(t) ==
    LET r == mth[t]
    IN  /\ r.pc = "return"
        /\ ManagerGoto(t, [r EXCEPT !.pc = "idle",
                !.got = [breakers[proc[t]][r.name] EXCEPT !.built = 0]])
        /\ manager_lock' = [manager_lock EXCEPT ![proc[t]] =
                                IF @ = t THEN 0 ELSE @]
        /\ UNCHANGED <<breakers, stored, now>>
        /\ UNCHANGED unmanaged

\* breaker.call(func) through the object handed out, for the breakers whose
\* configuration is config
ManagerCall(t) ==
    \E beh \in Behaviours :
        LET r == mth[t]
            c == call(stored[r.got.key], beh, now, 0)
        IN  /\ r.pc = "idle" /\ r.got # NoBreaker /\ r.outcome = "none"
            /\ r.got.config = config
            /\ stored' = [stored EXCEPT ![r.got.key] = c.store]
            /\ ManagerGoto(t, [r EXCEPT !.outcome = c.outcome, !.invoked = c.invoked])
            /\ UNCHANGED <<breakers, manager_lock, now>>
            /\ UNCHANGED unmanaged

ManagerTick ==
    /\ now < MaxThreadTime
    /\ now' = now + 1
    /\ UNCHANGED <<breakers, stored, manager_lock, mth>>
    /\ UNCHANGED unmanaged

ManagerNext ==
    \/ \E t \in Threads :
        \/ GetBreaker(t)
        \/ CheckRegistered(t)
        \/ InitializeStateGet(t)
        \/ InitializeStateSet(t)
        \/ Register(t)
        \/ ReturnBreaker(t)
        \/ ManagerCall(t)
    \/ ManagerTick

\* two threads of one process, or one thread in each of two processes; no
\* breaker has been constructed and the store is empty
ManagerInit ==
    /\ config \in ThreadConfigs
    /\ cb = initialize_state
    /\ now = 0
    /\ calls = 0
    /\ last = NoLast
    /\ streak = 0
    /\ limits = DefaultLimits
    /\ counters = EmptyCache
    /\ rl = NoRl
    /\ raised = {}
    /\ proc \in {[t \in Threads |-> 1], [t \in Threads |-> t]}
    /\ faults = FALSE
    /\ th = [t \in Threads |-> IdleThread]
    /\ lock = [p \in Processes |-> 0]
    /\ tally = [successes |-> 0, failures |-> 0]
    /\ NoService

SpecManager == ManagerInit /\ [][ManagerNext]_vars

\* C23: within one manager, under any interleaving of concurrent
\* get_breaker(name, config) calls, one CircuitBreaker is constructed per
\* name, every call for the name returns that object, and a config supplied
\* for a name that is already registered is ignored: the entry, once made,
\* never changes.
C23_Step ==
    /\ \A p \in Processes, nm \in Names :
        /\ breakers'[p][nm].built <= 1
        /\ breakers[p][nm].serial # 0 => breakers'[p][nm] = breakers[p][nm]
    /\ \A t \in Threads :
        mth'[t].got # NoBreaker =>
            /\ mth'[t].got.serial = 1
            /\ mth'[t].got.config = breakers'[proc[t]][mth'[t].name].config
    /\ \A t1, t2 \in Threads :
        (/\ proc[t1] = proc[t2]
         /\ mth'[t1].got # NoBreaker /\ mth'[t2].got # NoBreaker
         /\ mth'[t1].name = mth'[t2].name)
            => mth'[t1].got = mth'[t2].got
C23_OneBreakerPerName == [][C23_Step]_vars
C23_Witness ==
    /\ SameProcess
    /\ mth[1].got # NoBreaker
    /\ mth[1].got = mth[2].got
    /\ mth[1].name = mth[2].name
    /\ mth[2].config # NoConfig
    /\ mth[2].config # mth[2].got.config
    /\ breakers[1][mth[1].name].built = 1

\* C24: a construction of a CircuitBreaker that begins when the name's state
\* is already in the store leaves the persisted state, failure_count,
\* success_count, last_failure_time and metrics unchanged; and a call() made
\* while that state is OPEN and recovery_timeout has not elapsed raises
\* CircuitBreakerError without invoking the operation.
C24_Step ==
    \A t \in Threads :
        /\ (/\ mth[t].pc \in {"check", "construct", "initialize", "register", "return"}
            /\ mth[t].existed
            /\ mth'[t] # mth[t])
                => stored'[mth[t].config_name] = stored[mth[t].config_name]
        /\ (/\ mth[t].outcome = "none" /\ mth'[t].outcome # "none"
            /\ stored[mth[t].got.key].state = OPEN
            /\ now - stored[mth[t].got.key].last_failure_time
                   < mth[t].got.config.recovery_timeout)
                => /\ mth'[t].outcome = "raised_cbe"
                   /\ mth'[t].invoked = 0
                   /\ stored' = stored
C24_ConstructionKeepsState == [][C24_Step]_vars
C24_Witness ==
    /\ ~SameProcess
    /\ mth[1].outcome = "raised_op"
    /\ mth[2].existed
    /\ mth[2].name = mth[1].name
    /\ breakers[2][mth[2].name].built = 1
    /\ mth[2].outcome = "raised_cbe" /\ mth[2].invoked = 0
    /\ stored[mth[2].got.key].state = OPEN
    /\ stored[mth[2].got.key].metrics.total_requests = 1

(***************************************************************************)
(* AICategorizationService.predict_category                                *)
(* (src/ai_service/services/ai_categorization_service.py): the rate        *)
(* limiter, then the category list, then the Gemini call guarded by the    *)
(* breaker 'gemini_categorization'.  _available_categories is "none"       *)
(* (None), "loaded" (a non-empty list) or "empty" ([]); the source of the  *)
(* categories (cache service, then category service) delivers "loaded" or  *)
(* "empty", or "fails".                                                    *)
(***************************************************************************)
GeminiFailureThreshold == 3
GeminiRecoveryTimeout == 60
\* lines 53-58: circuit_breaker(name='gemini_categorization', ...)
GeminiConfig ==
    [failure_threshold |-> GeminiFailureThreshold,
     recovery_timeout |-> GeminiRecoveryTimeout,
     success_threshold |-> DefaultConfig.success_threshold]

CategorySources == {"loaded", "empty", "fails"}

\* _perform_gemini_api_call returns, or raises GeminiServiceException (every
\* exception is converted at lines 494-504)
GeminiBehaviours == {beh \in Behaviours : beh.ok \/ beh.expected}

\* lines 331-366: the list, the new _available_categories, and whether
\* DatabaseOperationException is raised
get_available_categories(memo, source) ==
    IF memo # "none"
    THEN [value |-> memo, memo |-> memo, raised |-> FALSE]
    ELSE IF source = "fails"
    THEN [value |-> "none", memo |-> memo, raised |-> TRUE]
    ELSE [value |-> source, memo |-> source, raised |-> FALSE]

\* lines 232-315: _fallback_prediction; "raised" when line 263 raises
fallback_prediction(memo, source) ==
    LET g == get_available_categories(memo, source)
    IN  IF g.raised
        THEN [method |-> "raised", memo |-> g.memo]
        ELSE IF g.value = "empty"
        THEN [method |-> "default_fallback", memo |-> g.memo]
        ELSE [method |-> "keyword_fallback", memo |-> g.memo]

\* what predict_category was given and met: whether the text is long enough,
\* the result is cached, the Gemini client exists; the caller's identity; the
\* source of the categories; what the Gemini call does; and whether the
\* processing of its answer (lines 176-217) succeeds
\* An input that predict_category does not read on its path has one value.
PredictionInputs ==
    LET beh0 == CHOOSE beh \in GeminiBehaviours : beh.ok
    IN  { in \in [text_valid : BOOLEAN, cache_hit : BOOLEAN, client : BOOLEAN,
                  user_id : ThreadUsers, source : CategorySources,
                  beh : GeminiBehaviours, processed : BOOLEAN] :
            /\ ~in.text_valid => in.cache_hit /\ in.client
            /\ in.cache_hit => in.client /\ in.source = "loaded"
            /\ ~in.text_valid \/ in.cache_hit \/ ~in.client
                  => in.user_id = NoUser /\ in.beh = beh0 /\ in.processed
            /\ in.source # "loaded" \/ ~in.beh.ok => in.processed }

\* faulty variant: the breaker is called before the rate limiter is consulted
predict_category_breaker_first(c, s, memo, in, t) ==
    LET rate_check == check_rate_limit(c, "gemini_api", in.user_id, t)
        got == get_available_categories(memo, in.source)
        guarded == call(s, in.beh, t, 0)
        base == [method |-> "none", memo |-> memo, store |-> c, breaker |-> s,
                 denied |-> FALSE, cbe |-> FALSE, failed |-> FALSE,
                 called |-> FALSE, invoked |-> 0]
        \* return self._fallback_prediction(...) from inside the try block
        fall(r) ==
            LET f1 == fallback_prediction(r.memo, in.source)
                f2 == fallback_prediction(f1.memo, in.source)
            IN  IF f1.method # "raised"
                THEN [r EXCEPT !.method = f1.method, !.memo = f1.memo]
                ELSE [r EXCEPT !.method = f2.method, !.memo = f2.memo]
    IN  IF ~in.text_valid THEN fall(base)
        ELSE IF in.cache_hit THEN [base EXCEPT !.method = "cached"]
        ELSE IF ~in.client THEN fall(base)
        ELSE IF ~rate_check.decision.allowed
        THEN fall([base EXCEPT !.denied = TRUE, !.store = rate_check.store,
                               !.breaker = guarded.store, !.called = TRUE,
                               !.invoked = guarded.invoked])
        ELSE LET r1 == [base EXCEPT !.store = rate_check.store, !.memo = got.memo]
             IN  IF got.raised \/ got.value = "empty" THEN fall(r1)
                 ELSE LET r2 == [r1 EXCEPT !.breaker = guarded.store,
                                           !.called = TRUE,
                                           !.invoked = guarded.invoked]
                      IN  IF guarded.outcome = "raised_cbe"
                          THEN fall([r2 EXCEPT !.cbe = TRUE])
                          ELSE IF guarded.outcome = "raised_op"
                          THEN fall([r2 EXCEPT !.failed = TRUE])
                          ELSE IF ~in.processed THEN fall(r2)
                          ELSE [r2 EXCEPT !.method = "gemini_ai"]

\* lines 126-230.  An exception that leaves the try block, the one raised by
\* a fallback of lines 132-160 included, is caught at line 227, whose handler
\* calls _fallback_prediction once more, outside any try.
predict_category(c, s, memo, in, t) ==
    LET rate_check == check_rate_limit(c, "gemini_api", in.user_id, t)
        got == get_available_categories(memo, in.source)
        guarded == call(s, in.beh, t, 0)
        base == [method |-> "none", memo |-> memo, store |-> c, breaker |-> s,
                 denied |-> FALSE, cbe |-> FALSE, failed |-> FALSE,
                 called |-> FALSE, invoked |-> 0]
        \* return self._fallback_prediction(...) from inside the try block
        fall(r) ==
            LET f1 == fallback_prediction(r.memo, in.source)
                f2 == fallback_prediction(f1.memo, in.source)
            IN  IF f1.method # "raised"
                THEN [r EXCEPT !.method = f1.method, !.memo = f1.memo]
                ELSE [r EXCEPT !.method = f2.method, !.memo = f2.memo]
    IN  IF ~in.text_valid THEN fall(base)
        ELSE IF in.cache_hit THEN [base EXCEPT !.method = "cached"]
        ELSE IF ~in.client THEN fall(base)
        ELSE IF ~rate_check.decision.allowed
        THEN fall([base EXCEPT !.denied = TRUE, !.store = rate_check.store])
        ELSE LET r1 == [base EXCEPT !.store = rate_check.store, !.memo = got.memo]
             IN  IF got.raised \/ got.value = "empty" THEN fall(r1)
                 ELSE LET r2 == [r1 EXCEPT !.breaker = guarded.store,
                                           !.called = TRUE,
                                           !.invoked = guarded.invoked]
                      IN  IF guarded.outcome = "raised_cbe"
                          THEN fall([r2 EXCEPT !.cbe = TRUE])
                          ELSE IF guarded.outcome = "raised_op"
                          THEN fall([r2 EXCEPT !.failed = TRUE])
                          ELSE IF ~in.processed THEN fall(r2)
                          ELSE [r2 EXCEPT !.method = "gemini_ai"]

MaxPredictions == 4

\* GEMINI_RPM / GEMINI_RPD / GEMINI_BURST: one request, or enough of them
\* for the breaker to open
CategorizationLimits ==
    { [gemini_api |-> [requests_per_minute |-> k, requests_per_day |-> k,
                       burst_limit |-> k, enabled |-> TRUE],
       tesseract  |-> [enabled |-> FALSE]] : k \in {1, 4} }

PredictCategory ==
    /\ calls < MaxPredictions
    /\ \E in \in PredictionInputs :
        \E r \in {predict_category(counters, cb, categories, in, now)} :
            /\ calls' = calls + 1
            /\ counters' = r.store
            /\ cb' = r.breaker
            /\ categories' = r.memo
            /\ prediction' = [method |-> r.method, denied |-> r.denied,
                              cbe |-> r.cbe, failed |-> r.failed,
                              called |-> r.called, invoked |-> r.invoked]
            /\ UNCHANGED <<config, now, last, streak, limits, rl, raised>>
            /\ UNCHANGED <<threadvars, lth, query, breakers, stored, manager_lock,
                           mth, delete_pattern>>

CategorizationNext == PredictCategory \/ LimiterTick

CategorizationInit ==
    /\ config = GeminiConfig
    /\ cb = initialize_state
    /\ now = 0
    /\ calls = 0
    /\ last = NoLast
    /\ streak = 0
    /\ limits \in CategorizationLimits
    /\ counters = EmptyCache
    /\ rl = NoRl
    /\ raised = {}
    /\ NoThreads

SpecCategorization == CategorizationInit /\ [][CategorizationNext]_vars

\* C29: when the rate limiter denies the request, when the breaker raises
\* CircuitBreakerError, or when the guarded Gemini call fails with a failure
\* of an expected kind, predict_category returns a fallback prediction; it
\* does not raise.
C29_Step ==
    (/\ calls' = calls + 1
     /\ prediction'.denied \/ prediction'.cbe \/ prediction'.failed)
        => prediction'.method \in {"keyword_fallback", "default_fallback"}
C29_FallbackInsteadOfRaise == [][C29_Step]_vars

(***************************************************************************)
(* Properties of concurrent callers of one breaker                         *)
(***************************************************************************)
\* thread t ends its call() with CircuitBreakerError in this step
Rejected(t) == th[t].outcome = "none" /\ th'[t].outcome = "raised_cbe"

\* thread t is running reset(), or has run it
Resetting(t) ==
    \/ th[t].outcome = "reset"
    \/ th[t].ret = "reset_failure_count"
    \/ th[t].pc \in {"reset_failure_count", "reset_success_count",
                     "reset_last_failure_time"}

NoReset == \A t \in Threads : ~Resetting(t)

\* C31: under any interleaving of concurrent callers of call() (no reset()
\* is involved), whenever call() raises CircuitBreakerError the persisted
\* state at that moment is OPEN and now - last_failure_time <
\* recovery_timeout; a call is never rejected while the persisted state is
\* CLOSED or HALF_OPEN.
C31_Step ==
    \A t \in Threads :
        (NoReset /\ Rejected(t)) =>
            /\ cb.state = OPEN
            /\ now - cb.last_failure_time < config.recovery_timeout
C31_RejectedOnlyWhileOpen == [][C31_Step]_vars

\* C32: under any interleaving of concurrent callers and without reset(),
\* the persisted state changes only along CLOSED to OPEN, OPEN to HALF_OPEN,
\* HALF_OPEN to CLOSED and HALF_OPEN to OPEN.
C32_Step ==
    (NoReset /\ NoReset' /\ cb'.state # cb.state) =>
        <<cb.state, cb'.state>> \in
            {<<CLOSED, OPEN>>, <<OPEN, HALF_OPEN>>,
             <<HALF_OPEN, CLOSED>>, <<HALF_OPEN, OPEN>>}
C32_TransitionsOnly == [][C32_Step]_vars

(***************************************************************************)
(* A breaker that opens on its second failure, called by two threads of    *)
(* one process or by one thread in each of two processes.                  *)
(***************************************************************************)
ProcessConfigs ==
    [failure_threshold : {2}, recovery_timeout : {1}, success_threshold : {1}]

\* the store as _initialize_state leaves it, or as two earlier expected
\* failures (made at time 0) have left it
ProcessStores ==
    LET failure == [ok |-> FALSE, expected |-> TRUE, timeout |-> FALSE]
    IN  {initialize_state,
         call(call(initialize_state, failure, 0, 0).store, failure, 0, 0).store}

ProcessesInit ==
    /\ config \in ProcessConfigs
    /\ cb \in ProcessStores
    /\ now = 0
    /\ calls = 0
    /\ last = NoLast
    /\ streak = 0
    /\ limits = DefaultLimits
    /\ counters = EmptyCache
    /\ rl = NoRl
    /\ raised = {}
    /\ proc \in {[t \in Threads |-> 1], [t \in Threads |-> t]}
    /\ faults = FALSE
    /\ th = [t \in Threads |-> IdleThread]
    /\ lock = [p \in Processes |-> 0]
    /\ tally = [successes |-> cb.metrics.total_successes,
                failures |-> cb.metrics.total_failures]
    /\ NoService

SpecProcesses == ProcessesInit /\ [][ThreadNext]_vars

\* the call of thread t has ended with an expected failure that
\* _record_failure recorded with current_state = CLOSED
FailedWhileClosed(t) ==
    /\ th[t].pc = "idle"
    /\ th[t].outcome = "raised_op"
    /\ th[t].beh.expected
    /\ th[t].cur = CLOSED

\* C33: the failure bookkeeping is serialized by the lock of a process only.
\* When two expected failures have been recorded while CLOSED on a breaker
\* with failure_count 0 and failure_threshold 2, two threads of one process
\* leave failure_count 2 and the breaker OPEN; one thread in each of two
\* processes may leave failure_count 1 and the breaker CLOSED instead (the
\* witness), and nothing else.
C33_FailuresNotSerialized ==
    (\A t \in Threads : FailedWhileClosed(t)) =>
        /\ \/ cb.failure_count = 2 /\ cb.state = OPEN
           \/ cb.failure_count = 1 /\ cb.state = CLOSED
        /\ SameProcess => cb.failure_count = 2
C33_Witness ==
    /\ ~SameProcess
    /\ \A t \in Threads : FailedWhileClosed(t)
    /\ config.failure_threshold = 2
    /\ tally.failures = 2
    /\ cb.failure_count = 1
    /\ cb.state = CLOSED

(***************************************************************************)
(* Recovery.  One sequential caller keeps calling the breaker while the    *)
(* clock advances; calls counts the operations invoked.  The first         *)
(* MaxFailingCalls invoked operations may fail, every later one returns.   *)
(* The clock stops at MaxTime unless an OPEN breaker is still waiting for   *)
(* its recovery timeout.                                                   *)
(***************************************************************************)
MaxFailingCalls == 2

RecoveryConfigs ==
    [failure_threshold : {1, 2}, recovery_timeout : {0, 1, 2},
     success_threshold : {1, 2}]

\* the caller calls with an operation that behaves as one of behs
RecoveryCall(behs) ==
    \E beh \in behs :
        LET r == call(cb, beh, now, 0)
        IN  /\ r.invoked = 1 =>
                calls < MaxFailingCalls + (IF beh.ok THEN config.success_threshold ELSE 0)
            /\ cb' = r.store
            /\ calls' = calls + r.invoked
            /\ last' = [op |-> "call", prev_op |-> last.op, beh |-> beh,
                        invoked |-> r.invoked, outcome |-> r.outcome,
                        state_at_invoke |-> r.at_invoke.state,
                        pre_sc |-> cb.success_count]
            /\ UNCHANGED <<config, now, streak, limits, counters, rl, raised>>
            /\ UNCHANGED <<threadvars, servicevars>>

Succeeding == {beh \in Behaviours : beh.ok}
CallSucceeding == RecoveryCall(Succeeding)
CallFailing == RecoveryCall(Behaviours \ Succeeding)

RecoveryTick ==
    /\ \/ now < MaxTime
       \/ cb.state = OPEN /\ ~can_attempt_reset(cb, now)
    /\ now' = now + 1
    /\ UNCHANGED <<config, cb, calls, last, streak, limits, counters, rl, raised>>
    /\ UNCHANGED <<threadvars, servicevars>>

RecoveryNext == CallSucceeding \/ CallFailing \/ RecoveryTick

RecoveryInit ==
    /\ config \in RecoveryConfigs
    /\ cb = initialize_state
    /\ now = 0
    /\ calls = 0
    /\ last = NoLast
    /\ streak = 0
    /\ limits = DefaultLimits
    /\ counters = EmptyCache
    /\ rl = NoRl
    /\ raised = {}
    /\ NoThreads

\* the clock keeps advancing and the caller keeps calling
SpecRecovery ==
    /\ RecoveryInit
    /\ [][RecoveryNext]_vars
    /\ WF_vars(RecoveryTick)
    /\ WF_vars(CallSucceeding)

\* the breaker has just been closed by a call that was admitted in HALF_OPEN
ClosedByProbe ==
    /\ cb.state = CLOSED
    /\ last.invoked = 1
    /\ last.state_at_invoke = HALF_OPEN
    /\ last.outcome = "returned"

\* C34: the breaker has no terminal state: once every invoked operation
\* succeeds, an OPEN breaker eventually admits a call in HALF_OPEN and is
\* CLOSED by it, a breaker left HALF_OPEN eventually becomes CLOSED, and no
\* call made while the breaker is CLOSED is rejected.  (An admitted call
\* passes through HALF_OPEN inside call(); with success_threshold 1 it
\* leaves the breaker CLOSED.)
C34_ClosedAdmits ==
    (cb.state = CLOSED /\ last' # last) => last'.outcome # "raised_cbe"
C34_Recovers ==
    /\ (cb.state = OPEN) ~> ClosedByProbe
    /\ (cb.state = HALF_OPEN) ~> (cb.state = CLOSED)
    /\ [][C34_ClosedAdmits]_vars
C34_Witness ==
    /\ cb.state = CLOSED
    /\ cb.metrics.total_circuit_opens >= 1
    /\ cb.metrics.total_circuit_closes >= 1
    /\ last.outcome = "returned"
    /\ last.state_at_invoke = HALF_OPEN
    /\ calls >= MaxFailingCalls

\* the callers whose check of the service was admitted in the minute bucket
AdmittedThreads(service, bucket) ==
    {t \in LimiterThreads :
        lth[t].admitted /\ lth[t].service = service /\ lth[t].bucket = bucket}

\* C35: under any interleaving of concurrent check_rate_limit callers for an
\* enabled service with requests_per_minute = K, at most K calls are
\* admitted within one minute bucket.
C35_MinuteCapConcurrent ==
    \A service \in DOMAIN limits, t \in LimiterThreads :
        Cardinality(AdmittedThreads(service, lth[t].bucket))
            <= dict_get(limits[service], "requests_per_minute", 0)

(***************************************************************************)
(* Nesting of the rate limiter's windows                                   *)
(***************************************************************************)
\* the minute bucket that contains a burst bucket, the day bucket that
\* contains a minute bucket
EnclosingMinute(bucket) == (bucket * burst_window) \div MinuteWindow
EnclosingDay(bucket) == (bucket * MinuteWindow) \div DayWindow

\* C36: in every state reached by sequential check_rate_limit calls, the
\* counters are nested: the burst counter of any identity for a 10-second
\* bucket is at most the minute counter of the enclosing minute bucket, which
\* is at most the day counter of the enclosing day bucket.
C36_CountersNested ==
    \A k \in DOMAIN counters :
        /\ k.window = "burst" =>
             StoredCount(k) <=
                 StoredCount([service |-> k.service, window |-> "minute",
                              bucket |-> EnclosingMinute(k.bucket), user |-> ""])
        /\ k.window = "minute" =>
             StoredCount(k) <=
                 StoredCount([service |-> k.service, window |-> "day",
                              bucket |-> EnclosingDay(k.bucket), user |-> ""])
C36_Witness ==
    /\ now = 9
    /\ StoredCount(burst_key("gemini_api", now, "u1")) = 1
    /\ StoredCount(burst_key("gemini_api", now, "u2")) = 1
    /\ StoredCount(minute_key("gemini_api", now)) = 2
    /\ StoredCount(day_key("gemini_api", now)) = 2

\* C37: in every reachable state, under interleavings of callers in one or
\* in different processes, the persisted metrics satisfy total_requests =
\* total_successes + total_failures; calls rejected with CircuitBreakerError
\* and failures of an unexpected kind are counted in none of the three (the
\* totals never exceed the numbers of operations that returned and that
\* raised an expected failure, and a rejected call writes nothing).
C37_MetricsBalance ==
    /\ cb.metrics.total_requests
           = cb.metrics.total_successes + cb.metrics.total_failures
    /\ cb.metrics.total_successes <= tally.successes
    /\ cb.metrics.total_failures <= tally.failures
    /\ \A t \in Threads : th[t].outcome = "raised_cbe" => ~th[t].wrote
C37_Witness ==
    /\ ~SameProcess
    /\ th[1].outcome = "raised_cbe"
    /\ th[2].outcome = "raised_op" /\ ~th[2].beh.expected /\ th[2].invoked = 1
    /\ cb.metrics.total_requests = 1
    /\ cb.metrics.total_failures = 1
    /\ tally = [successes |-> 0, failures |-> 1]

(***************************************************************************)
(* Properties of the breakers of one manager                               *)
(***************************************************************************)
\* thread t ends a call() through the breaker it was handed in this step
ManagerCalled(t) == mth[t].outcome = "none" /\ mth'[t].outcome # "none"

\* the cache entries of the breaker registered for nm in the manager of p
PersistedState(p, nm) == stored[breakers[p][nm].key]

\* C38: breakers registered in one manager under distinct names have
\* disjoint persisted state: a call() on the breaker obtained for one name
\* never changes the state, counters or metrics of the breaker registered
\* for another name, whatever config was supplied to get_breaker.
C38_Step ==
    \A t \in Threads, nm \in Names :
        (/\ ManagerCalled(t)
         /\ nm # mth[t].name
         /\ breakers[proc[t]][nm].serial # 0)
            => PersistedState(proc[t], nm)' = PersistedState(proc[t], nm)
C38_DisjointState == [][C38_Step]_vars

(***************************************************************************)
(* The order of the rate limiter and the breaker in predict_category       *)
(***************************************************************************)
\* the request counted in the minute window of gemini_api
RecordedRequests(c, t) ==
    cache_get(c, minute_key("gemini_api", t), 0, t)

\* C39: in predict_category the rate limiter is consulted before the
\* breaker: the Gemini operation is invoked only after check_rate_limit
\* allowed the request (which it then recorded) and breaker.call admitted
\* the call; when the rate limiter denies, breaker.call is not made and the
\* breaker's persisted state is unchanged.
C39_Step ==
    calls' = calls + 1 =>
        /\ prediction'.invoked = 1 =>
            /\ ~prediction'.denied
            /\ RecordedRequests(counters', now) = RecordedRequests(counters, now) + 1
            /\ prediction'.called /\ ~prediction'.cbe
            /\ cb.state # OPEN \/ can_attempt_reset(cb, now)
        /\ prediction'.denied =>
            /\ ~prediction'.called
            /\ prediction'.invoked = 0
            /\ cb' = cb
C39_LimiterBeforeBreaker == [][C39_Step]_vars
C39_Witness ==
    /\ prediction.denied
    /\ ~prediction.called
    /\ prediction.method = "keyword_fallback"
    /\ cb.metrics.total_requests >= 1
    /\ cb.failure_count >= 1

====
